---- MODULE Spec2Model ----
(***************************************************************************)
(* Model of the bwh client core and of the `migrate start` command        *)
(* (cmd/bwh/migrate.go): the request executor and envelope decoding of    *)
(* pkg/client, the error predicates, and the wait-mode protocol: one      *)
(* goroutine running the start call, the select loop over the ticker,     *)
(* resultCh, errCh and migCtx.Done().                                     *)
(***************************************************************************)
EXTENDS Integers, Sequences, FiniteSets, TLC

\* ---------------------------------------------------------------- bounds

\* Saturation point of the request and output counters.
MaxCount == 4

\* ------------------------------------------------------ program constants

\* make(chan ..., 1): resultCh and errCh hold one value.
ChanCap == 1
\* Code of "VE is currently locked".
LockedCode == 788888
\* Code of the authentication failure.
AuthCode == 700005
\* http.StatusOK
StatusOK == 200

\* --------------------------------------------------------- wire and errors

\* A nil *AdditionalLockingInfo.
NoLock == [present |-> FALSE, percent |-> 0, msg |-> "", upd |-> 0]

LockInfo(p, m, u) == [present |-> TRUE, percent |-> p, msg |-> m, upd |-> u]

\* The envelope every response embeds.
BaseResponse(code, message, info, lock) ==
    [error |-> code, message |-> message, info |-> info, lock |-> lock]

\* A nil error.
NilErr ==
    [kind |-> "nil", what |-> "", code |-> 0, message |-> "", info |-> "",
     lock |-> NoLock]

\* A plain error made by fmt.Errorf in the request executor.
TransportErr(what) ==
    [kind |-> "transport", what |-> what, code |-> 0, message |-> "",
     info |-> "", lock |-> NoLock]

\* Mutant of BWHError: only code and message are copied, as wrapError does.
BWHErrorCodeMessage(base) ==
    [kind |-> "bwh", what |-> "", code |-> base.error,
     message |-> base.message, info |-> "", lock |-> NoLock]

\* &BWHError{...} built from an envelope.
BWHError(base) ==
    [kind |-> "bwh", what |-> "", code |-> base.error,
     message |-> base.message, info |-> base.info, lock |-> base.lock]

\* err.(*BWHError)
GetBWHError(e) == [err |-> e, ok |-> e.kind = "bwh"]

IsBWHError(e) == e.kind = "bwh"

\* Mutant of IsAuthenticationError: the code is not compared.
IsAuthAnyCode(e) == GetBWHError(e).ok

IsAuthenticationError(e) ==
    IF GetBWHError(e).ok THEN GetBWHError(e).err.code = AuthCode ELSE FALSE

\* Mutant of IsLockedError: no error counts as locked.
IsLockedNever(e) == FALSE

\* Mutant of IsLockedError: any domain error counts as locked.
IsLockedAnyCode(e) == GetBWHError(e).ok

IsLockedError(e) ==
    IF GetBWHError(e).ok THEN GetBWHError(e).err.code = LockedCode ELSE FALSE

\* fmt.Errorf(context + ": %w", err): a *fmt.wrapError that keeps err as its
\* cause.
Errorf(context, err) ==
    [kind |-> "wrapError", what |-> context, code |-> 0, message |-> "", info |-> "",
     lock |-> NoLock, cause |-> err]

\* The answers of the four error predicates on an error.
Recognised(err) ==
    [get |-> GetBWHError(err).ok, isBWH |-> IsBWHError(err),
     isLocked |-> IsLockedError(err), isAuth |-> IsAuthenticationError(err)]

\* What the provider (or the network) answers to one request.
\*   net    : the transport delivered a response
\*   status : its HTTP status
\*   json   : its body decodes into the result shape
Wire(net, status, json, base, body) ==
    [net |-> net, status |-> status, json |-> json, base |-> base, body |-> body]

\* ------------------------------------------------------ building a request

\* Base URLs a client is given: the default one, and one url.Parse rejects.
defaultBaseURL == "https://api.64clouds.com/v1"

MalformedURLs == {"http://[::1"}

\* url.Parse(c.baseURL + "/" + endpoint)
urlParse(base, endpoint) ==
    [ok |-> base \notin MalformedURLs, base |-> base, endpoint |-> endpoint]

\* NewClient followed by an optional SetBaseURL.
NewClient(apiKey, veid) == [apiKey |-> apiKey, veid |-> veid, baseURL |-> defaultBaseURL]

SetBaseURL(c, baseURL) == [c EXCEPT !.baseURL = baseURL]

\* Keys of the query string that the modelled calls use.
ParamKeys == {"veid", "api_key", "location", "snapshot"}

\* A key that a url.Values or a parameter map does not hold.
Absent == "<absent>"

\* u.Query() of a URL without a query string.
EmptyQuery == [k \in ParamKeys |-> Absent]

\* A nil map[string]string.
NoParams == [k \in ParamKeys |-> Absent]

\* q.Set(k, v)
QuerySet(q, k, v) == [q EXCEPT ![k] = v]

\* for k, v := range params { q.Set(k, v) }: the keys of a map are distinct,
\* so the iteration order does not matter.
RangeSet(q, params) ==
    [k \in ParamKeys |-> IF params[k] # Absent THEN params[k] ELSE q[k]]

\* The query both executors build: identity first, caller parameters after.
BuildQuery(c, params) ==
    RangeSet(QuerySet(QuerySet(EmptyQuery, "veid", c.veid), "api_key", c.apiKey),
             params)

\* One HTTP request handed to http.Client.Do.
Request(endpoint, q) == [endpoint |-> endpoint, query |-> q]

\* Mutant of SendOnce: the request is sent again after the first answer.
SendTwice(req) == <<req, req>>

\* The requests one executor run hands to http.Client.Do.
SendOnce(req) == <<req>>

\* http.NewRequestWithContext(ctx, http.MethodGet, u.String(), nil): the
\* method is valid and the context is not nil, so it fails only when the text
\* of u is no URL.
NewRequestWithContext(u) == [ok |-> u.ok]

\* The body that doRequest and doRequestWithTimeout share: the error returned,
\* whether `result` was filled, and the requests handed to http.Client.Do.
\* `cancelled` is whether the request's context is done when the round trip is
\* resolved. No request is sent when the URL or the request cannot be built.
DoRequest(c, endpoint, params, w, cancelled) ==
    IF ~urlParse(c.baseURL, endpoint).ok
    THEN [err |-> TransportErr("parse"), decoded |-> FALSE, sent |-> <<>>]
    ELSE IF ~NewRequestWithContext(urlParse(c.baseURL, endpoint)).ok
    THEN [err |-> TransportErr("create"), decoded |-> FALSE, sent |-> <<>>]
    ELSE IF cancelled \/ ~w.net
    THEN [err |-> TransportErr("send"), decoded |-> FALSE,
          sent |-> SendOnce(Request(endpoint, BuildQuery(c, params)))]
    ELSE IF w.status # StatusOK
    THEN [err |-> TransportErr("status"), decoded |-> FALSE,
          sent |-> SendOnce(Request(endpoint, BuildQuery(c, params)))]
    ELSE IF ~w.json
    THEN [err |-> TransportErr("decode"), decoded |-> FALSE,
          sent |-> SendOnce(Request(endpoint, BuildQuery(c, params)))]
    ELSE [err |-> NilErr, decoded |-> TRUE,
          sent |-> SendOnce(Request(endpoint, BuildQuery(c, params)))]

\* Mutant of wrapErrorWithBase: the envelope code is not looked at.
wrapIgnoringCode(resp, zero, base) == [val |-> resp, err |-> NilErr]

\* wrapErrorWithBase: the zero value and a *BWHError on a nonzero code.
wrapErrorWithBase(resp, zero, base) ==
    IF base.error # 0 THEN [val |-> zero, err |-> BWHError(base)]
    ELSE [val |-> resp, err |-> NilErr]

\* ------------------------------------------------------- migration payloads

\* Addresses are character sequences, so that their family can be read.
IPv4A == <<"1", "0", ".", "0", ".", "0", ".", "7">>
IPv6A == <<"2", "0", "0", "1", ":", ":", "1">>

\* A nil *MigrateStartResponse.
NoStartResp == [nil |-> TRUE, email |-> "", ips |-> <<>>]

StartResp(email, ips) == [nil |-> FALSE, email |-> email, ips |-> ips]

\* A nil *MigrateLocationsResponse.
NoLocResp == [nil |-> TRUE, current |-> ""]

LocResp(cur) == [nil |-> FALSE, current |-> cur]

OkBase == BaseResponse(0, "", "", NoLock)

\* The transport delivers no response to migrate/start.
StartNetFail == Wire(FALSE, 0, FALSE, OkBase, NoStartResp)

\* Answers to migrate/start.
StartWires ==
    { Wire(TRUE, 200, TRUE, OkBase, StartResp("me@example.com", <<IPv4A, IPv6A>>)),
      Wire(TRUE, 200, TRUE, OkBase, StartResp("", <<>>)),
      Wire(TRUE, 200, TRUE,
           BaseResponse(LockedCode, "VE is currently locked", "", NoLock), NoStartResp),
      Wire(TRUE, 200, TRUE, BaseResponse(1, "Invalid location", "", NoLock), NoStartResp),
      Wire(TRUE, 500, FALSE, OkBase, NoStartResp),
      StartNetFail }

Locked50 ==
    Wire(TRUE, 200, TRUE,
         BaseResponse(LockedCode, "VE is currently locked", "",
                      LockInfo(50, "Copying disk", 0)), NoLocResp)

Locked50Later ==
    Wire(TRUE, 200, TRUE,
         BaseResponse(LockedCode, "VE is currently locked", "",
                      LockInfo(50, "Copying disk", 7)), NoLocResp)

Locked80 ==
    Wire(TRUE, 200, TRUE,
         BaseResponse(LockedCode, "VE is currently locked", "Migration in progress",
                      LockInfo(80, "Finalizing", 0)), NoLocResp)

\* A progress record that reads {"completed_percent": -1,
\* "friendly_progress_message": ""}.
LockedBlank ==
    Wire(TRUE, 200, TRUE,
         BaseResponse(LockedCode, "VE is currently locked", "", LockInfo(-1, "", 0)),
         NoLocResp)

ProbeOk == Wire(TRUE, 200, TRUE, OkBase, LocResp("USCA_2"))

ProbeAuthFail ==
    Wire(TRUE, 200, TRUE, BaseResponse(AuthCode, "Authentication failure", "", NoLock),
         NoLocResp)

ProbeNetFail == Wire(FALSE, 0, FALSE, OkBase, NoLocResp)

\* Answers to migrate/getLocations.
ProbeWires ==
    {ProbeOk, Locked50, Locked50Later, Locked80, LockedBlank, ProbeAuthFail, ProbeNetFail}

\* Client.StartMigrationWithTimeout
StartMigrationWithTimeout(c, locationID, w, cancelled) ==
    LET r == DoRequest(c, "migrate/start", [NoParams EXCEPT !["location"] = locationID],
                       w, cancelled)
    IN  IF r.err.kind # "nil" THEN [val |-> NoStartResp, err |-> r.err, sent |-> r.sent]
        ELSE [val |-> wrapErrorWithBase(w.body, NoStartResp, w.base).val,
              err |-> wrapErrorWithBase(w.body, NoStartResp, w.base).err,
              sent |-> r.sent]

\* Client.GetMigrateLocations
GetMigrateLocations(c, w, cancelled) ==
    LET r == DoRequest(c, "migrate/getLocations", NoParams, w, cancelled)
    IN  IF r.err.kind # "nil" THEN [val |-> NoLocResp, err |-> r.err, sent |-> r.sent]
        ELSE [val |-> wrapErrorWithBase(w.body, NoLocResp, w.base).val,
              err |-> wrapErrorWithBase(w.body, NoLocResp, w.base).err,
              sent |-> r.sent]

\* strings.Contains(ip, ":")
ContainsColon(ip) == \E i \in 1..Len(ip) : ip[i] = ":"

splitIPsByFamily(ips) ==
    [ipv4 |-> SelectSeq(ips, LAMBDA ip : ~ContainsColon(ip)),
     ipv6 |-> SelectSeq(ips, LAMBDA ip : ContainsColon(ip))]

\* ------------------------------------------------------ the request executor

\* Mutant of doRequest: the HTTP status is not looked at.
doRequestAnyStatus(c, endpoint, params, w) ==
    IF ~urlParse(c.baseURL, endpoint).ok
    THEN [err |-> TransportErr("parse"), decoded |-> FALSE, sent |-> <<>>]
    ELSE IF ~w.net
    THEN [err |-> TransportErr("send"), decoded |-> FALSE,
          sent |-> SendOnce(Request(endpoint, BuildQuery(c, params)))]
    ELSE IF ~w.json
    THEN [err |-> TransportErr("decode"), decoded |-> FALSE,
          sent |-> SendOnce(Request(endpoint, BuildQuery(c, params)))]
    ELSE [err |-> NilErr, decoded |-> TRUE,
          sent |-> SendOnce(Request(endpoint, BuildQuery(c, params)))]

\* doRequest: the error it returns, whether `result` was filled, and the
\* requests it sent. The caller's context is not cancelled.
doRequest(c, endpoint, params, w) == DoRequest(c, endpoint, params, w, FALSE)

\* doRequestWithTimeout: the same steps under a context with a deadline; the
\* deadline passing before the answer is the wire that delivers nothing.
doRequestWithTimeout(c, endpoint, params, w) ==
    DoRequest(c, endpoint, params, w, FALSE)

\* ------------------------------------------------------- domain operations

\* A nil *AvailableOSResponse.
NoOSResp == [nil |-> TRUE, installed |-> "", templates |-> <<>>]

OSResp(installed, templates) ==
    [nil |-> FALSE, installed |-> installed, templates |-> templates]

\* wrapOnlyErrorFromBase
wrapOnlyErrorFromBase(base) == IF base.error # 0 THEN BWHError(base) ELSE NilErr

\* GetAvailableOS: a typed result through doRequest, no parameters.
GetAvailableOS(c, w) ==
    LET r == doRequest(c, "getAvailableOS", NoParams, w)
    IN  IF r.err.kind # "nil"
        THEN [val |-> NoOSResp, err |-> r.err, sent |-> r.sent]
        ELSE [val |-> wrapErrorWithBase(w.body, NoOSResp, w.base).val,
              err |-> wrapErrorWithBase(w.body, NoOSResp, w.base).err,
              sent |-> r.sent]

\* StartMigration: a typed result through doRequestWithTimeout.
StartMigration(c, locationID, w) ==
    LET r == doRequestWithTimeout(c, "migrate/start",
                                  [NoParams EXCEPT !["location"] = locationID], w)
    IN  IF r.err.kind # "nil"
        THEN [val |-> NoStartResp, err |-> r.err, sent |-> r.sent]
        ELSE [val |-> wrapErrorWithBase(w.body, NoStartResp, w.base).val,
              err |-> wrapErrorWithBase(w.body, NoStartResp, w.base).err,
              sent |-> r.sent]

\* DeleteSnapshot: an operation that returns only an error.
DeleteSnapshot(c, fileName, w) ==
    LET r == doRequest(c, "snapshot/delete",
                       [NoParams EXCEPT !["snapshot"] = fileName], w)
    IN  IF r.err.kind # "nil"
        THEN [err |-> r.err, sent |-> r.sent]
        ELSE [err |-> wrapOnlyErrorFromBase(w.base), sent |-> r.sent]

\* ------------------------------------------------------------- FlexibleInt

\* Text is a sequence of one-character strings, so that it can be parsed.
DigitChars == <<"0", "1", "2", "3", "4", "5", "6", "7", "8", "9">>

IsDigit(c) == \E i \in 1..Len(DigitChars) : DigitChars[i] = c

DigitVal(c) == CHOOSE v \in 0..9 : DigitChars[v + 1] = c

\* An int64 is kept as its sign and the decimal digits of its magnitude
\* without leading zeros, so that all 64 bits are there.
Int64(neg, digits) == [neg |-> neg, digits |-> digits]

Zero64 == Int64(FALSE, <<"0">>)

\* The magnitudes of math.MaxInt64 and math.MinInt64.
MaxInt64Digits == <<"9", "2", "2", "3", "3", "7", "2", "0", "3", "6", "8", "5", "4", "7", "7", "5", "8", "0", "7">>

MinInt64Digits == <<"9", "2", "2", "3", "3", "7", "2", "0", "3", "6", "8", "5", "4", "7", "7", "5", "8", "0", "8">>

RECURSIVE StripZeros(_)
StripZeros(d) == IF Len(d) > 1 /\ d[1] = "0" THEN StripZeros(Tail(d)) ELSE d

\* a <= b for digit strings of the same length.
RECURSIVE DigitsLE(_, _)
DigitsLE(a, b) ==
    IF a = <<>> THEN TRUE
    ELSE IF DigitVal(a[1]) < DigitVal(b[1]) THEN TRUE
    ELSE IF DigitVal(a[1]) > DigitVal(b[1]) THEN FALSE
    ELSE DigitsLE(Tail(a), Tail(b))

FitsIn(d, limit) ==
    Len(d) < Len(limit) \/ (Len(d) = Len(limit) /\ DigitsLE(d, limit))

ParseFailed == [ok |-> FALSE, value |-> Zero64]

\* strconv.ParseInt(s, 10, 64): an optional sign, then decimal digits only,
\* at least one, and a value inside the int64 range.
ParseInt(s) ==
    IF s = <<>> THEN ParseFailed
    ELSE LET neg == s[1] = "-"
             body == IF s[1] \in {"+", "-"} THEN Tail(s) ELSE s
             mag == StripZeros(body)
         IN  IF body = <<>> \/ \E i \in 1..Len(body) : ~IsDigit(body[i])
             THEN ParseFailed
             ELSE IF ~FitsIn(mag, IF neg THEN MinInt64Digits ELSE MaxInt64Digits)
             THEN ParseFailed
             ELSE [ok |-> TRUE, value |-> Int64(neg /\ mag # <<"0">>, mag)]

\* A JSON value: its kind and, for a number, its literal, for a string, its
\* content.
JSON(kind, text) == [kind |-> kind, text |-> text]

\* json.Unmarshal(data, &intVal): null leaves the zero, a number literal goes
\* through ParseInt, anything else is an error.
UnmarshalInt64(data) ==
    IF data.kind = "null" THEN [ok |-> TRUE, value |-> Zero64]
    ELSE IF data.kind = "number" THEN ParseInt(data.text)
    ELSE ParseFailed

\* json.Unmarshal(data, &strVal)
UnmarshalString(data) ==
    IF data.kind = "null" THEN [ok |-> TRUE, str |-> <<>>]
    ELSE IF data.kind = "string" THEN [ok |-> TRUE, str |-> data.text]
    ELSE [ok |-> FALSE, str |-> <<>>]

\* Mutant of UnmarshalJSON: the string form is not tried.
UnmarshalNumberOnly(data) ==
    IF UnmarshalInt64(data).ok
    THEN [value |-> UnmarshalInt64(data).value, err |-> "nil"]
    ELSE [value |-> Zero64, err |-> "nil"]

\* FlexibleInt.UnmarshalJSON: the new Value and the error returned.
UnmarshalJSON(data) ==
    IF UnmarshalInt64(data).ok
    THEN [value |-> UnmarshalInt64(data).value, err |-> "nil"]
    ELSE IF UnmarshalString(data).ok /\ ParseInt(UnmarshalString(data).str).ok
    THEN [value |-> ParseInt(UnmarshalString(data).str).value, err |-> "nil"]
    ELSE [value |-> Zero64, err |-> "nil"]

\* A FlexibleInt that has decoded nothing.
NoDecode ==
    [called |-> FALSE, before |-> Zero64, data |-> JSON("null", <<>>),
     value |-> Zero64, err |-> "nil"]

\* ----------------------------------------------------- validateBackupToken

\* Length of a backup token.
TokenLen == 40

\* The class [a-f0-9] of the pattern.
HexLower ==
    {"0", "1", "2", "3", "4", "5", "6", "7", "8", "9", "a", "b", "c", "d", "e", "f"}

\* Bytes of one character in UTF-8; the text here holds one non-ASCII letter.
ByteWidth(c) == IF c = "é" THEN 2 ELSE 1

\* len(s) of a Go string: its bytes.
RECURSIVE ByteLen(_)
ByteLen(s) == IF s = <<>> THEN 0 ELSE ByteWidth(s[1]) + ByteLen(Tail(s))

\* regexp.MatchString("^[a-f0-9]{40}$", token): `$` is the end of the text.
MatchesTokenPattern(token) ==
    Len(token) = TokenLen /\ \A i \in 1..Len(token) : token[i] \in HexLower

\* Mutant of validateBackupToken: upper-case hex digits pass as well.
validateHexAnyCase(token) ==
    IF ByteLen(token) # TokenLen THEN "length"
    ELSE IF \A i \in 1..Len(token) :
               token[i] \in HexLower \cup {"A", "B", "C", "D", "E", "F"}
    THEN "nil"
    ELSE "format"

\* validateBackupToken: "nil", or which of its two errors. The pattern is a
\* constant that compiles, so the error of MatchString does not occur.
validateBackupToken(token) ==
    IF ByteLen(token) # TokenLen THEN "length"
    ELSE IF ~MatchesTokenPattern(token) THEN "format"
    ELSE "nil"

NoTokenCall == [called |-> FALSE, token |-> <<>>, err |-> "nil"]

\* ------------------------------------------------------------ IP addresses

\* Index of the first sep in s, or 0.
FirstIndex(s, sep) ==
    IF \E i \in 1..Len(s) : s[i] = sep
    THEN CHOOSE i \in 1..Len(s) : s[i] = sep /\ \A j \in 1..(i - 1) : s[j] # sep
    ELSE 0

\* strings.Split(s, sep) for a one-character separator.
RECURSIVE Split(_, _)
Split(s, sep) ==
    IF FirstIndex(s, sep) = 0 THEN <<s>>
    ELSE <<SubSeq(s, 1, FirstIndex(s, sep) - 1)>>
         \o Split(SubSeq(s, FirstIndex(s, sep) + 1, Len(s)), sep)

\* The number a string of decimal digits stands for.
RECURSIVE DecimalValue(_)
DecimalValue(d) ==
    IF d = <<>> THEN 0
    ELSE DecimalValue(SubSeq(d, 1, Len(d) - 1)) * 10 + DigitVal(d[Len(d)])

\* One field of a dotted-decimal address: 1 to 3 digits, no leading zero,
\* at most 255.
IsOctetText(f) ==
    /\ Len(f) \in 1..3
    /\ \A i \in 1..Len(f) : IsDigit(f[i])
    /\ Len(f) = 1 \/ f[1] # "0"
    /\ DecimalValue(f) <= 255

\* IPv6 literals net.ParseIP accepts, and an IPv4-mapped one.
IPv6Literals ==
    { <<"2", "0", "0", "1", ":", "d", "b", "8", ":", "1", "2", "3", "4", ":", "5", "6", "7", "8", ":", ":">>,
      <<"2", "0", "0", "1", ":", "d", "b", "8", ":", ":", "1">>,
      <<"2", "0", "0", "1", ":", ":", "1">>,
      <<":", ":", "1">> }

V4MappedLiteral == <<":", ":", "f", "f", "f", "f", ":", "1", "0", ".", "0", ".", "0", ".", "2">>

V4MappedOctets == <<10, 0, 0, 2>>

NilIP == [ok |-> FALSE, v4 |-> FALSE, octets |-> <<>>]

\* net.ParseIP: dotted-decimal IPv4 is parsed; of the IPv6 grammar the
\* literals above are known.
ParseIP(s) ==
    IF Len(Split(s, ".")) = 4 /\ \A i \in 1..4 : IsOctetText(Split(s, ".")[i])
    THEN [ok |-> TRUE, v4 |-> TRUE,
          octets |-> [i \in 1..4 |-> DecimalValue(Split(s, ".")[i])]]
    ELSE IF s = V4MappedLiteral THEN [ok |-> TRUE, v4 |-> TRUE, octets |-> V4MappedOctets]
    ELSE IF s \in IPv6Literals THEN [ok |-> TRUE, v4 |-> FALSE, octets |-> <<>>]
    ELSE NilIP

\* strings.TrimSuffix
TrimSuffix(s, suffix) ==
    IF Len(s) >= Len(suffix) /\ SubSeq(s, Len(s) - Len(suffix) + 1, Len(s)) = suffix
    THEN SubSeq(s, 1, Len(s) - Len(suffix))
    ELSE s

\* Mutant of isValidIPv6Subnet: every argument passes.
isValidAnySubnet(subnet) == TRUE

\* isValidIPv6Subnet: an IP address that is not IPv4, "/64" allowed at the end.
isValidIPv6Subnet(subnet) ==
    LET ip == ParseIP(TrimSuffix(subnet, <<"/", "6", "4">>))
    IN  IF ~ip.ok THEN FALSE ELSE ~ip.v4

\* ------------------------------------------------------ validating commands

\* The characters of unicode.IsSpace; those a string of this module cannot
\* hold are written by their code point.
WhiteSpace ==
    {" ", "\t", "\n", "\r", "\f", "U+000B", "U+0085", "U+00A0", "U+1680", "U+2000",
     "U+2001", "U+2002", "U+2003", "U+2004", "U+2005", "U+2006", "U+2007", "U+2008",
     "U+2009", "U+200A", "U+2028", "U+2029", "U+202F", "U+205F", "U+3000"}

\* strings.Fields. An SSH key line is its words and the white-space
\* characters between them, one element each.
Fields(key) == SelectSeq(key, LAMBDA x : x \notin WhiteSpace)

validTypes ==
    {"ssh-rsa", "ssh-dss", "ssh-ed25519", "ecdsa-sha2-nistp256", "ecdsa-sha2-nistp384",
     "ecdsa-sha2-nistp521", "sk-ecdsa-sha2-nistp256@openssh.com",
     "sk-ssh-ed25519@openssh.com"}

isValidSshKey(key) ==
    IF Len(Fields(key)) < 2 THEN FALSE ELSE Fields(key)[1] \in validTypes

\* Mutant of isValidOSTemplate: every template passes.
isValidAnyTemplate(template, availableTemplates) == TRUE

isValidOSTemplate(template, availableTemplates) ==
    \E i \in 1..Len(availableTemplates) : template = availableTemplates[i]

\* A line typed at a prompt, or the end of the input.
Typed(line) == [eof |-> FALSE, line |-> line]

EndOfInput == [eof |-> TRUE, line |-> ""]

\* promptConfirmation: the answer is lowered and trimmed by the command; the
\* lines here are in that form already.
promptConfirmation(answer) ==
    IF answer.eof THEN [confirmed |-> FALSE, err |-> TRUE]
    ELSE [confirmed |-> answer.line \in {"y", "yes"}, err |-> FALSE]

\* confirmReinstall: the target OS has to be typed.
confirmReinstall(answer, targetOS) ==
    IF answer.eof THEN FALSE ELSE answer.line = targetOS

\* What one run of a command did: the client operations it called, in order,
\* and the kind of value its Action returned.
Ran(calls, ret) == [calls |-> calls, ret |-> ret]

\* backup copy-to-snapshot
backupCopyToSnapshotCmd(in) ==
    IF Len(in.args) # 1 THEN Ran(<<>>, "usage")
    ELSE IF validateBackupToken(in.args[1]) # "nil" THEN Ran(<<>>, "validation")
    ELSE IF ~in.cfgOk THEN Ran(<<>>, "config")
    ELSE IF ~in.list.ok THEN Ran(<<"backup/list">>, "api")
    ELSE IF in.args[1] \notin in.list.backups THEN Ran(<<"backup/list">>, "notfound")
    ELSE IF ~in.yes /\ promptConfirmation(in.answer).err
    THEN Ran(<<"backup/list">>, "input")
    ELSE IF ~in.yes /\ ~promptConfirmation(in.answer).confirmed
    THEN Ran(<<"backup/list">>, "nil")
    ELSE Ran(<<"backup/list", "backup/copyToSnapshot">>,
             IF in.copyOk THEN "nil" ELSE "api")

\* ssh set: the keys are the arguments, or the lines of --file.
sshSetCmd(in) ==
    IF ~in.cfgOk THEN Ran(<<>>, "config")
    ELSE IF in.file = "unreadable" THEN Ran(<<>>, "file")
    ELSE IF Len(in.keys) = 0 THEN Ran(<<>>, "usage")
    ELSE IF \E i \in 1..Len(in.keys) : ~isValidSshKey(in.keys[i])
    THEN Ran(<<>>, "validation")
    ELSE Ran(<<"updateSshKeys">>, IF in.updateOk THEN "nil" ELSE "api")

\* reinstall
\* What one run of reinstall did: as Ran, with the "os" parameter of the
\* reinstallOS request when one was sent.
RanReinstall(calls, ret, os) == [calls |-> calls, ret |-> ret, os |-> os]

reinstallCmd(in) ==
    IF ~in.cfgOk THEN RanReinstall(<<>>, "config", Absent)
    ELSE IF ~in.os.ok THEN RanReinstall(<<"getAvailableOS">>, "api", Absent)
    ELSE IF in.listOnly THEN RanReinstall(<<"getAvailableOS">>, "nil", Absent)
    ELSE IF in.osTemplate = "" THEN RanReinstall(<<"getAvailableOS">>, "nil", Absent)
    ELSE IF ~isValidOSTemplate(in.osTemplate, in.os.templates)
    THEN RanReinstall(<<"getAvailableOS">>, "validation", Absent)
    ELSE IF ~in.force /\ ~confirmReinstall(in.answer, in.osTemplate)
    THEN RanReinstall(<<"getAvailableOS">>, "nil", Absent)
    ELSE RanReinstall(<<"getAvailableOS", "reinstallOS">>,
                      IF in.reinstallOk THEN "nil" ELSE "api", in.osTemplate)

\* ipv6 delete
ipv6DeleteCmd(in) ==
    IF Len(in.args) # 1 THEN Ran(<<>>, "usage")
    ELSE IF ~isValidIPv6Subnet(in.args[1]) THEN Ran(<<>>, "validation")
    ELSE IF ~in.yes /\ promptConfirmation(in.answer).err THEN Ran(<<>>, "input")
    ELSE IF ~in.yes /\ ~promptConfirmation(in.answer).confirmed THEN Ran(<<>>, "nil")
    ELSE IF ~in.cfgOk THEN Ran(<<>>, "config")
    ELSE Ran(<<"ipv6/delete">>, IF in.deleteOk THEN "nil" ELSE "api")

\* No command has run.
NoRun == [cmd |-> "none", calls |-> <<>>, ret |-> "nil"]

\* ------------------------------------------------------ aggregateIPv4Ranges

\* A uint32 holding an address is kept as its four bytes, high byte first.
\* ipv4ToUint32
ipv4ToUint32(s) ==
    IF ~ParseIP(s).ok THEN [n |-> <<0, 0, 0, 0>>, ok |-> FALSE]
    ELSE IF ~ParseIP(s).v4 THEN [n |-> <<0, 0, 0, 0>>, ok |-> FALSE]
    ELSE [n |-> ParseIP(s).octets, ok |-> TRUE]

\* fmt.Sprintf("%d", v) for v >= 0
RECURSIVE FormatDecimal(_)
FormatDecimal(v) ==
    IF v < 10 THEN <<DigitChars[v + 1]>>
    ELSE FormatDecimal(v \div 10) \o <<DigitChars[(v % 10) + 1]>>

uint32ToIPv4(n) ==
    FormatDecimal(n[1]) \o <<".">> \o FormatDecimal(n[2]) \o <<".">>
    \o FormatDecimal(n[3]) \o <<".">> \o FormatDecimal(n[4])

\* math.MaxUint64, 18446744073709551615, as decimal digits.
MaxUint64Digits == <<"1", "8", "4", "4", "6", "7", "4", "4", "0", "7", "3", "7", "0", "9", "5", "5", "1", "6", "1", "5">>

\* The loop of strconv.ParseUint(s, 10, 64) from byte i on, n being the value
\* read so far: the bytes are taken left to right; a byte that is no digit
\* ends the scan with a syntax error, and a digit that takes the value past
\* math.MaxUint64 ends it with a range error and the value math.MaxUint64,
\* the bytes after it unread.
RECURSIVE ScanUint(_, _, _)
ScanUint(s, i, n) ==
    IF i > Len(s) THEN [err |-> "nil", un |-> n]
    ELSE IF ~IsDigit(s[i]) THEN [err |-> "syntax", un |-> <<"0">>]
    ELSE IF ~FitsIn(StripZeros(n \o <<s[i]>>), MaxUint64Digits)
    THEN [err |-> "range", un |-> MaxUint64Digits]
    ELSE ScanUint(s, i + 1, StripZeros(n \o <<s[i]>>))

\* strconv.ParseUint(s, 10, 64)
ParseUint(s) ==
    IF s = <<>> THEN [err |-> "syntax", un |-> <<"0">>]
    ELSE ScanUint(s, 1, <<"0">>)

\* strconv.Atoi with its error dropped, as an int of 64 bits. A text of 1 to
\* 18 bytes takes the fast path: an optional sign, then digits only, else 0.
\* Any other text goes through ParseInt(s, 10, 0): 0 for the empty text and
\* for a syntax error of ParseUint; otherwise, a range error included, the
\* value of ParseUint, cut to math.MaxInt64 or math.MinInt64 when it is out
\* of the range of the sign.
Atoi(s) ==
    IF 0 < Len(s) /\ Len(s) < 19
    THEN LET body == IF s[1] \in {"+", "-"} THEN Tail(s) ELSE s
         IN  IF body = <<>> \/ \E i \in 1..Len(body) : ~IsDigit(body[i])
             THEN Zero64
             ELSE Int64(s[1] = "-" /\ StripZeros(body) # <<"0">>, StripZeros(body))
    ELSE IF s = <<>> THEN Zero64
    ELSE LET neg == s[1] = "-"
             body == IF s[1] \in {"+", "-"} THEN Tail(s) ELSE s
             u == ParseUint(body)
         IN  IF u.err = "syntax" THEN Zero64
             ELSE IF ~neg /\ ~FitsIn(u.un, MaxInt64Digits)
             THEN Int64(FALSE, MaxInt64Digits)
             ELSE IF neg /\ ~FitsIn(u.un, MinInt64Digits)
             THEN Int64(TRUE, MinInt64Digits)
             ELSE Int64(neg /\ u.un # <<"0">>, u.un)

\* fmt's %d verb on an int of 64 bits.
FormatInt64(v) == IF v.neg THEN <<"-">> \o v.digits ELSE v.digits

splitIPv4(s) ==
    IF Len(Split(s, ".")) # 4 THEN <<Zero64, Zero64, Zero64, Zero64>>
    ELSE [i \in 1..4 |-> Atoi(Split(s, ".")[i])]

\* a < b on uint32
Less32(a, b) ==
    \E i \in 1..4 : a[i] < b[i] /\ \A j \in 1..(i - 1) : a[j] = b[j]

\* n + 1 on uint32, wrapping to 0 after 255.255.255.255
Succ32(n) ==
    IF n[4] < 255 THEN <<n[1], n[2], n[3], n[4] + 1>>
    ELSE IF n[3] < 255 THEN <<n[1], n[2], n[3] + 1, 0>>
    ELSE IF n[2] < 255 THEN <<n[1], n[2] + 1, 0, 0>>
    ELSE IF n[1] < 255 THEN <<n[1] + 1, 0, 0, 0>>
    ELSE <<0, 0, 0, 0>>

\* The first loop: the valid addresses, each once, in input order.
RECURSIVE DistinctNums(_, _)
DistinctNums(ips, nums) ==
    IF ips = <<>> THEN nums
    ELSE IF ipv4ToUint32(ips[1]).ok
            /\ \A i \in 1..Len(nums) : nums[i] # ipv4ToUint32(ips[1]).n
         THEN DistinctNums(Tail(ips), Append(nums, ipv4ToUint32(ips[1]).n))
         ELSE DistinctNums(Tail(ips), nums)

\* sort.Slice(nums, less): the distinct numbers in ascending order.
RECURSIVE Sort32(_)
Sort32(nums) ==
    IF nums = <<>> THEN <<>>
    ELSE LET k == CHOOSE i \in 1..Len(nums) :
                     \A j \in 1..Len(nums) : j = i \/ Less32(nums[i], nums[j])
         IN  <<nums[k]>> \o Sort32(SubSeq(nums, 1, k - 1) \o SubSeq(nums, k + 1, Len(nums)))

\* flush: the text of the range a..b.
flush(a, b) ==
    IF a = b THEN uint32ToIPv4(a)
    ELSE IF /\ splitIPv4(uint32ToIPv4(a))[1] = splitIPv4(uint32ToIPv4(b))[1]
            /\ splitIPv4(uint32ToIPv4(a))[2] = splitIPv4(uint32ToIPv4(b))[2]
            /\ splitIPv4(uint32ToIPv4(a))[3] = splitIPv4(uint32ToIPv4(b))[3]
         THEN FormatInt64(splitIPv4(uint32ToIPv4(a))[1]) \o <<".">>
              \o FormatInt64(splitIPv4(uint32ToIPv4(a))[2]) \o <<".">>
              \o FormatInt64(splitIPv4(uint32ToIPv4(a))[3]) \o <<".">>
              \o FormatInt64(splitIPv4(uint32ToIPv4(a))[4]) \o <<"-">>
              \o FormatInt64(splitIPv4(uint32ToIPv4(b))[4])
         ELSE uint32ToIPv4(a) \o <<"-">> \o uint32ToIPv4(b)

\* Mutant of Contiguous: addresses of one /24 block count as contiguous.
ContiguousInBlock(prev, n) == prev[1] = n[1] /\ prev[2] = n[2] /\ prev[3] = n[3]

\* n == prev || n == prev+1
Contiguous(prev, n) == n = prev \/ n = Succ32(prev)

\* The second loop, from index i on, and the final flush.
RECURSIVE RangeLoop(_, _, _, _, _)
RangeLoop(nums, i, start, prev, ranges) ==
    IF i > Len(nums) THEN Append(ranges, flush(start, prev))
    ELSE IF Contiguous(prev, nums[i])
         THEN RangeLoop(nums, i + 1, start, nums[i], ranges)
         ELSE RangeLoop(nums, i + 1, nums[i], nums[i], Append(ranges, flush(start, prev)))

aggregateIPv4Ranges(ips) ==
    LET nums == Sort32(DistinctNums(ips, <<>>))
    IN  IF Len(nums) = 0 THEN [ranges |-> <<>>, total |-> 0]
        ELSE [ranges |-> RangeLoop(nums, 2, nums[1], nums[1], <<>>),
              total |-> Len(nums)]

\* aggregateIPv4Ranges has not been called.
NoAggregate == [called |-> FALSE, ips |-> <<>>, ranges |-> <<>>, total |-> 0]

\* ---------------------------------------------------------- config.Manager

\* Config: the Instances map, from names to instances, and DefaultInstance.
Config(instances, default) == [instances |-> instances, default |-> default]

\* A nil *Instance.
NilInstance == [nil |-> TRUE, apiKey |-> "", veid |-> ""]

\* The instance a configuration file holds under a name.
InstanceOf(name) == [nil |-> FALSE, apiKey |-> "KEY-" \o name, veid |-> "VE-" \o name]

\* &Config{Instances: make(map[string]*Instance)}
EmptyConfig == Config([n \in {} |-> NilInstance], "")

\* An error of package config: nil, a sentinel, or a sentinel wrapped by
\* fmt.Errorf("%w: %s", ...).
ConfigErr(sentinel, wrapped) == [sentinel |-> sentinel, wrapped |-> wrapped]

NoConfigErr == ConfigErr("nil", FALSE)

\* Manager.GetInstance
GetInstance(cfg, name) ==
    IF name \notin DOMAIN cfg.instances
    THEN [inst |-> NilInstance, err |-> ConfigErr("ErrInstanceNotFound", TRUE)]
    ELSE [inst |-> cfg.instances[name], err |-> NoConfigErr]

Resolved(g, name) == [inst |-> g.inst, name |-> name, err |-> g.err]

\* Mutant of ResolveInstance: the configured default is looked at before the
\* environment.
ResolveDefaultFirst(cfg, envInstance, instanceName) ==
    IF Cardinality(DOMAIN cfg.instances) = 0
    THEN [inst |-> NilInstance, name |-> "", err |-> ConfigErr("ErrNoInstances", FALSE)]
    ELSE IF instanceName # "" THEN Resolved(GetInstance(cfg, instanceName), instanceName)
    ELSE IF cfg.default # "" THEN Resolved(GetInstance(cfg, cfg.default), cfg.default)
    ELSE IF envInstance # "" THEN Resolved(GetInstance(cfg, envInstance), envInstance)
    ELSE IF Cardinality(DOMAIN cfg.instances) = 1
    THEN Resolved(GetInstance(cfg, CHOOSE n \in DOMAIN cfg.instances : TRUE),
                  CHOOSE n \in DOMAIN cfg.instances : TRUE)
    ELSE [inst |-> NilInstance, name |-> "",
          err |-> ConfigErr("ErrNoDefaultInstance", FALSE)]

\* Manager.ResolveInstance, with the value of BWH_INSTANCE it reads.
ResolveInstance(cfg, envInstance, instanceName) ==
    IF Cardinality(DOMAIN cfg.instances) = 0
    THEN [inst |-> NilInstance, name |-> "", err |-> ConfigErr("ErrNoInstances", FALSE)]
    ELSE IF instanceName # "" THEN Resolved(GetInstance(cfg, instanceName), instanceName)
    ELSE IF envInstance # "" THEN Resolved(GetInstance(cfg, envInstance), envInstance)
    ELSE IF cfg.default # "" THEN Resolved(GetInstance(cfg, cfg.default), cfg.default)
    ELSE IF Cardinality(DOMAIN cfg.instances) = 1
    THEN Resolved(GetInstance(cfg, CHOOSE n \in DOMAIN cfg.instances : TRUE),
                  CHOOSE n \in DOMAIN cfg.instances : TRUE)
    ELSE [inst |-> NilInstance, name |-> "",
          err |-> ConfigErr("ErrNoDefaultInstance", FALSE)]

\* ResolveInstance has not been called.
NoResolve ==
    [called |-> FALSE, arg |-> "", env |-> "", config |-> EmptyConfig,
     inst |-> NilInstance, name |-> "", err |-> NoConfigErr]

\* An error built by fmt.Errorf without %w in resolveInstanceWithFallback: the
\* help text, the names of GetAvailableInstances it prints, and no cause; or
\* the error of ResolveInstance handed on as it is.
FallbackErr(help, available, cause) ==
    [help |-> help, available |-> available, cause |-> cause]

\* Go's == on two error values, as `switch err` uses it: a sentinel equals
\* itself, and an error that wraps it is another value.
SameError(err, sentinel) == err.sentinel = sentinel /\ ~err.wrapped

\* resolveInstanceWithFallback; branch is the case of `switch err` taken.
resolveInstanceWithFallback(cfg, envInstance, instanceName) ==
    LET r == ResolveInstance(cfg, envInstance, instanceName)
    IN  IF r.err # NoConfigErr
        THEN IF SameError(r.err, "ErrNoInstances")
             THEN [inst |-> NilInstance, name |-> "", branch |-> "ErrNoInstances",
                   err |-> FallbackErr("no instances configured. Run 'bwh node add <name>' to add one",
                                       {}, NoConfigErr)]
             ELSE IF SameError(r.err, "ErrNoDefaultInstance")
             THEN [inst |-> NilInstance, name |-> "", branch |-> "ErrNoDefaultInstance",
                   err |-> FallbackErr("no default instance set and multiple instances available",
                                       DOMAIN cfg.instances, NoConfigErr)]
             ELSE IF SameError(r.err, "ErrInstanceNotFound")
             THEN [inst |-> NilInstance, name |-> "", branch |-> "ErrInstanceNotFound",
                   err |-> FallbackErr("instance not found. Available instances",
                                       DOMAIN cfg.instances, NoConfigErr)]
             ELSE [inst |-> NilInstance, name |-> "", branch |-> "default",
                   err |-> FallbackErr("", {}, r.err)]
        ELSE [inst |-> r.inst, name |-> r.name, branch |-> "nil",
              err |-> FallbackErr("", {}, NoConfigErr)]

\* resolveInstanceWithFallback made no call since the last ResolveInstance.
NoFallback ==
    [called |-> FALSE, inst |-> NilInstance, name |-> "", branch |-> "nil",
     err |-> FallbackErr("", {}, NoConfigErr)]

\* ------------------------------------------- config.Manager: the mutations

\* The characters of the names and API keys the manager is given.
Runes(s) ==
    CASE s = "" -> <<>>
      [] s = "prod" -> <<"p", "r", "o", "d">>
      [] s = "dev" -> <<"d", "e", "v">>
      [] s = "web" -> <<"w", "e", "b">>
      [] s = "my vps" -> <<"m", "y", " ", "v", "p", "s">>
      [] s = "private_key_001" ->
            <<"p", "r", "i", "v", "a", "t", "e", "_", "k", "e", "y", "_", "0", "0", "1">>
      [] s = "private_key_002" ->
            <<"p", "r", "i", "v", "a", "t", "e", "_", "k", "e", "y", "_", "0", "0", "2">>
      [] s = "short" -> <<"s", "h", "o", "r", "t">>
      [] s = "key with space" ->
            <<"k", "e", "y", " ", "w", "i", "t", "h", " ", "s", "p", "a", "c", "e">>

\* strings.ContainsAny
ContainsAny(s, chars) == \E i \in 1..Len(Runes(s)) : Runes(s)[i] \in chars

\* An error made by errors.New or fmt.Errorf at the place it is returned.
PlainErr(text) == ConfigErr(text, FALSE)

validateInstanceName(name) ==
    IF name = "" THEN PlainErr("instance name cannot be empty")
    ELSE IF ContainsAny(name, {" ", "\t", "\n", "\r"})
    THEN PlainErr("instance name cannot contain whitespace")
    ELSE NoConfigErr

validateInstance(instance) ==
    IF instance.apiKey = "" THEN ConfigErr("ErrInvalidAPIKey", FALSE)
    ELSE IF instance.veid = "" THEN ConfigErr("ErrInvalidVeID", FALSE)
    ELSE IF Len(instance.apiKey) < 10 \/ Len(instance.apiKey) > 256
    THEN ConfigErr("ErrInvalidAPIKey", FALSE)
    ELSE IF ContainsAny(instance.apiKey, {" ", "\t", "\n"})
    THEN ConfigErr("ErrInvalidAPIKey", FALSE)
    ELSE IF Len(instance.veid) = 0 \/ Len(instance.veid) > 32
    THEN ConfigErr("ErrInvalidVeID", FALSE)
    ELSE NoConfigErr

\* Manager.Save: the file system lets it write the file, or not.
Save(writable) ==
    IF writable THEN NoConfigErr ELSE ConfigErr("failed to write config file", TRUE)

\* m.config.Instances[name] = instance
MapSet(instances, name, instance) ==
    [n \in DOMAIN instances \cup {name} |-> IF n = name THEN instance ELSE instances[n]]

\* delete(m.config.Instances, name)
MapDelete(instances, name) == [n \in DOMAIN instances \ {name} |-> instances[n]]

\* Manager.AddInstance: the configuration it leaves and the error it returns.
AddInstance(cfg, name, instance, setDefault, writable) ==
    IF validateInstanceName(name) # NoConfigErr
    THEN [config |-> cfg, err |-> validateInstanceName(name)]
    ELSE IF validateInstance(instance) # NoConfigErr
    THEN [config |-> cfg, err |-> validateInstance(instance)]
    ELSE IF name \in DOMAIN cfg.instances
    THEN [config |-> cfg, err |-> ConfigErr("ErrInstanceExists", TRUE)]
    ELSE LET added == MapSet(cfg.instances, name, instance)
         IN  [config |-> Config(added,
                                IF setDefault \/ Cardinality(DOMAIN added) = 1
                                THEN name ELSE cfg.default),
              err |-> Save(writable)]

\* Mutant of RemoveInstance: the default is left as it is.
RemoveKeepsDefault(cfg, name, writable) ==
    IF name \notin DOMAIN cfg.instances
    THEN [config |-> cfg, err |-> ConfigErr("ErrInstanceNotFound", TRUE)]
    ELSE [config |-> Config(MapDelete(cfg.instances, name), cfg.default),
          err |-> Save(writable)]

\* Manager.RemoveInstance
RemoveInstance(cfg, name, writable) ==
    IF name \notin DOMAIN cfg.instances
    THEN [config |-> cfg, err |-> ConfigErr("ErrInstanceNotFound", TRUE)]
    ELSE LET left == MapDelete(cfg.instances, name)
         IN  [config |->
                  Config(left,
                         IF cfg.default = name
                         THEN IF Cardinality(DOMAIN left) = 1
                              THEN CHOOSE n \in DOMAIN left : TRUE
                              ELSE ""
                         ELSE cfg.default),
              err |-> Save(writable)]

\* Manager.SetDefault
SetDefault(cfg, name, writable) ==
    IF name \notin DOMAIN cfg.instances
    THEN [config |-> cfg, err |-> ConfigErr("ErrInstanceNotFound", TRUE)]
    ELSE [config |-> Config(cfg.instances, name), err |-> Save(writable)]

\* No mutation has been called on the manager.
NoManagerCall ==
    [op |-> "none", name |-> "", before |-> EmptyConfig, err |-> NoConfigErr,
     allOk |-> TRUE]

\* ------------------------------------------------------------ BWHError.Error

\* The text of a sequence of characters.
RECURSIVE Concat(_)
Concat(chars) == IF chars = <<>> THEN "" ELSE Head(chars) \o Concat(Tail(chars))

\* fmt's %d verb.
Sprintd(v) ==
    IF v < 0 THEN "-" \o Concat(FormatDecimal(0 - v)) ELSE Concat(FormatDecimal(v))

\* Mutant of Error: the age of the progress record is printed from zero on.
ErrorAgeFromZero(e) ==
    (IF e.message # ""
     THEN "BWH API error " \o Sprintd(e.code) \o ": " \o e.message
     ELSE "BWH API error " \o Sprintd(e.code))
    \o (IF e.info # "" THEN "\nOperation: " \o e.info ELSE "")
    \o (IF e.lock.present
        THEN "\nProgress: " \o Sprintd(e.lock.percent) \o "% complete - " \o e.lock.msg
             \o (IF e.lock.upd >= 0
                 THEN " (updated " \o Sprintd(e.lock.upd) \o "s ago)"
                 ELSE "")
        ELSE "")

\* (*BWHError).Error
Error(e) ==
    (IF e.message # ""
     THEN "BWH API error " \o Sprintd(e.code) \o ": " \o e.message
     ELSE "BWH API error " \o Sprintd(e.code))
    \o (IF e.info # "" THEN "\nOperation: " \o e.info ELSE "")
    \o (IF e.lock.present
        THEN "\nProgress: " \o Sprintd(e.lock.percent) \o "% complete - " \o e.lock.msg
             \o (IF e.lock.upd > 0
                 THEN " (updated " \o Sprintd(e.lock.upd) \o "s ago)"
                 ELSE "")
        ELSE "")

\* Error() has not been called.
NoError == [called |-> FALSE, e |-> NilErr, text |-> ""]

\* ------------------------------------------------------------------ state

VARIABLES
    wait,          \* the --wait flag
    pc,            \* the command: "start", "select", "probing", "done"
    gpc,           \* the start goroutine: "none", "calling", "send", "exited"
    startWire,     \* the answer the start call got (history)
    startRes,      \* what StartMigrationWithTimeout returned, and the requests it sent
    startResolved, \* the start call has returned
    resultCh,      \* chan *MigrateStartResponse, capacity 1
    errCh,         \* chan error, capacity 1
    tickReady,     \* a tick is waiting in ticker.C
    tickEver,      \* the ticker has fired at least once (history)
    deadlineFired, \* the timer of migCtx has fired (history)
    migCtxDone,    \* migCtx.Done() is closed (deadline or deferred cancel)
    lastPercent,
    lastMsg,
    lastOperation,
    acceptResp,
    acceptEarly,   \* the acceptance was received before any probe was sent (history)
    nStart,        \* StartMigrationWithTimeout calls made
    nProbes,       \* GetMigrateLocations calls made by this command
    lastProbe,     \* the answer of the most recent probe (history)
    nAnswered,     \* probes that have returned (history)
    nLocked50,     \* probes that returned locked at 50% "Copying disk", unaged (history)
    allLocked,     \* every probe so far returned the locked error (history)
    out,           \* what was printed
    result,        \* what the Action returned
    client,        \* the *Client in use: apiKey, veid, baseURL
    cl,            \* the last call into pkg/client and what it did
    fi,            \* the last FlexibleInt decoding: the JSON value and the result
    tok,           \* the last validateBackupToken call
    cli,           \* the last run of a validating CLI command
    agg,           \* the last aggregateIPv4Ranges call
    config,        \* Manager.config: the instances and the default instance
    env,           \* the BWH_INSTANCE environment variable
    resolved,      \* the last ResolveInstance call
    fb,            \* what resolveInstanceWithFallback made of that call, if it made it
    mgr,           \* the last AddInstance, RemoveInstance or SetDefault call
    wrp,           \* the error of the last call as a command wrapped it, if it did
    shown          \* the last BWHError.Error() call: the error and its text

migrateVars ==
    <<wait, pc, gpc, startWire, startRes, startResolved, resultCh, errCh, tickReady,
      tickEver, deadlineFired, migCtxDone, lastPercent, lastMsg, lastOperation,
      acceptResp, acceptEarly, nStart, nProbes, lastProbe, nAnswered, nLocked50, allLocked, out, result>>

\* The state outside the migrate command: the client library and the other
\* commands, which the migrate command never touches.
clientVars == <<client, cl, wrp>>

decodeVars == <<fi>>

tokenVars == <<tok>>

cliVars == <<cli>>

aggVars == <<agg>>

configVars == <<config, env, resolved, fb, mgr>>

errorVars == <<shown>>

libVars == <<clientVars, decodeVars, tokenVars, cliVars, aggVars, configVars, errorVars>>

vars == <<migrateVars, libVars>>

\* Counters stop at MaxCount.
Sat(n) == IF n < MaxCount THEN n + 1 ELSE MaxCount

NoWire == Wire(FALSE, 0, FALSE, OkBase, NoStartResp)

\* No probe has returned yet.
NoProbe == Wire(FALSE, -1, FALSE, OkBase, NoLocResp)

NoOut ==
    [accepted |-> 0, email |-> "", unlocked |-> 0, location |-> "",
     ipv4 |-> <<>>, ipv6 |-> <<>>, opLines |-> 0, progLines |-> 0,
     progPair |-> <<0, "">>]

\* The Action has not returned.
Running == [ret |-> "none", msg |-> "", err |-> NilErr]

\* return nil
ReturnNil == [ret |-> "nil", msg |-> "", err |-> NilErr]

\* return fmt.Errorf(msg + ": %w", e), or fmt.Errorf(msg) with e nil.
ReturnErr(msg, e) == [ret |-> "error", msg |-> msg, err |-> e]

\* The context each request is issued under.
StartContext == "migCtx"

ProbeContext == "ctx"

\* Mutant of CtxDone: the deadline never closes migCtx.Done().
CtxNeverDone(c) == FALSE

\* ctx.Done() is closed. The parent ctx of the command is never cancelled here.
CtxDone(c) == IF c = "migCtx" THEN migCtxDone ELSE FALSE

\* ------------------------------------------------- the library state at rest

\* The client createBWHClient builds for the configured instance.
RestClient == NewClient("KEY-A", "1001")

\* Nothing has been called on the client.
NoCall ==
    [client |-> RestClient, op |-> "none", params |-> NoParams, wire |-> NoWire,
     sent |-> <<>>,
     typed |-> FALSE, val |-> NoOSResp, err |-> NilErr,
     isBWH |-> FALSE, isLocked |-> FALSE, isAuth |-> FALSE]

\* No command has wrapped an error.
NoWrap ==
    [called |-> FALSE, context |-> "", cause |-> NilErr, err |-> NilErr,
     original |-> Recognised(NilErr), wrapped |-> Recognised(NilErr)]

ClientAtRest == client = RestClient /\ cl = NoCall /\ wrp = NoWrap

DecodeAtRest == fi = NoDecode

TokenAtRest == tok = NoTokenCall

CliAtRest == cli = NoRun

AggAtRest == agg = NoAggregate

ConfigAtRest ==
    /\ config = EmptyConfig /\ env = "" /\ resolved = NoResolve /\ fb = NoFallback
    /\ mgr = NoManagerCall

ErrorAtRest == shown = NoError

MigrateInit ==
    /\ wait \in BOOLEAN
    /\ pc = "start"
    /\ gpc = "none"
    /\ startWire = NoWire
    /\ startRes = [val |-> NoStartResp, err |-> NilErr, sent |-> <<>>]
    /\ startResolved = FALSE
    /\ resultCh = <<>>
    /\ errCh = <<>>
    /\ tickReady = FALSE
    /\ tickEver = FALSE
    /\ deadlineFired = FALSE
    /\ migCtxDone = FALSE
    /\ lastPercent = -1
    /\ lastMsg = ""
    /\ lastOperation = ""
    /\ acceptResp = NoStartResp
    /\ acceptEarly = FALSE
    /\ nStart = 0
    /\ nProbes = 0
    /\ lastProbe = NoProbe
    /\ nAnswered = 0
    /\ nLocked50 = 0
    /\ allLocked = TRUE
    /\ out = NoOut
    /\ result = Running

\* createBWHClientWithInstance: the client of the resolved instance, with the
\* instance's endpoint, stored as it was entered, as base URL when it is set.
InstanceClients == {RestClient} \cup {SetBaseURL(RestClient, u) : u \in MalformedURLs}

\* The location `migrate start` is asked to move to.
TargetLocation == "USCA_2"

\* The transport is reached only with a URL: a call that cannot build the URL
\* of its endpoint gets the answer that delivers nothing.
Reaches(c, endpoint, w, none) == urlParse(c.baseURL, endpoint).ok \/ w = none

\* `bwh migrate start` is launched with the client of the resolved instance;
\* nothing else of the program runs.
Init ==
    /\ MigrateInit
    /\ client \in InstanceClients /\ cl = NoCall /\ wrp = NoWrap
    /\ DecodeAtRest /\ TokenAtRest /\ CliAtRest /\ AggAtRest
    /\ ConfigAtRest /\ ErrorAtRest

\* The "New IP addresses" block, printed when the set is non-empty.
PrintIPs(o, ips) ==
    IF Len(ips) > 0
    THEN [o EXCEPT !.ipv4 = splitIPsByFamily(ips).ipv4,
                   !.ipv6 = splitIPsByFamily(ips).ipv6]
    ELSE o

\* "Migration task accepted" and the notification line.
PrintAccepted(o, resp) ==
    [o EXCEPT !.accepted = Sat(o.accepted), !.email = resp.email]

\* "VE unlocked. Current location: ..." and the retained addresses.
PrintUnlocked(o, loc, accepted) ==
    LET o1 == [o EXCEPT !.unlocked = Sat(o.unlocked), !.location = loc.current]
    IN  IF ~accepted.nil /\ Len(accepted.ips) > 0 THEN PrintIPs(o1, accepted.ips) ELSE o1

\* Without --wait: one start call under ctx, then return.
StartNoWait(w) ==
    /\ pc = "start"
    /\ ~wait
    /\ Reaches(client, "migrate/start", w, StartNetFail)
    /\ LET r == StartMigrationWithTimeout(client, TargetLocation, w, CtxDone("ctx"))
       IN  /\ startWire' = w
           /\ startRes' = r
           /\ IF r.err.kind # "nil"
              THEN /\ result' = ReturnErr("failed to start migration", r.err)
                   /\ out' = out
              ELSE /\ result' = ReturnNil
                   /\ out' = PrintIPs(PrintAccepted(out, r.val), r.val.ips)
    /\ startResolved' = TRUE
    /\ nStart' = Sat(nStart)
    /\ pc' = "done"
    /\ UNCHANGED <<libVars, wait, gpc, resultCh, errCh, tickReady, tickEver, deadlineFired,
                   migCtxDone, lastPercent, lastMsg, lastOperation, acceptResp,
                   acceptEarly, nProbes, lastProbe, nAnswered, nLocked50, allLocked>>

\* With --wait: migCtx, the channels, the goroutine, the ticker, the loop state.
StartWait ==
    /\ pc = "start"
    /\ wait
    /\ gpc' = "calling"
    /\ nStart' = Sat(nStart)
    /\ resultCh' = <<>>
    /\ errCh' = <<>>
    /\ lastPercent' = -1
    /\ lastMsg' = ""
    /\ lastOperation' = ""
    /\ acceptResp' = NoStartResp
    /\ acceptEarly' = FALSE
    /\ pc' = "select"
    /\ UNCHANGED <<libVars, wait, startWire, startRes, startResolved, tickReady, tickEver,
                   deadlineFired, migCtxDone, nProbes, lastProbe, nAnswered, nLocked50,
                   allLocked, out, result>>

\* The goroutine: StartMigrationWithTimeout(migCtx, ...) returns.
StartReturn(w) ==
    /\ gpc = "calling"
    /\ Reaches(client, "migrate/start", w, StartNetFail)
    /\ startWire' = w
    /\ startRes' = StartMigrationWithTimeout(client, TargetLocation, w,
                                             CtxDone(StartContext))
    /\ startResolved' = TRUE
    /\ gpc' = "send"
    /\ UNCHANGED <<libVars, wait, pc, resultCh, errCh, tickReady, tickEver, deadlineFired,
                   migCtxDone, lastPercent, lastMsg, lastOperation, acceptResp,
                   acceptEarly, nStart, nProbes, lastProbe, nAnswered, nLocked50,
                   allLocked, out, result>>

\* Mutant of CanSend: unbuffered channels, a send needs the loop in its select.
CanSendUnbuffered(ch) == pc = "select" /\ Len(ch) < ChanCap

\* A send on a channel of capacity ChanCap does not block.
CanSend(ch) == Len(ch) < ChanCap

\* The goroutine: errCh <- err, or resultCh <- resp, then it ends.
GoSend ==
    /\ gpc = "send"
    /\ IF startRes.err.kind # "nil"
       THEN /\ CanSend(errCh)
            /\ errCh' = Append(errCh, startRes.err)
            /\ resultCh' = resultCh
       ELSE /\ CanSend(resultCh)
            /\ resultCh' = Append(resultCh, startRes.val)
            /\ errCh' = errCh
    /\ gpc' = "exited"
    /\ UNCHANGED <<libVars, wait, pc, startWire, startRes, startResolved, tickReady, tickEver,
                   deadlineFired, migCtxDone, lastPercent, lastMsg, lastOperation,
                   acceptResp, acceptEarly, nStart, nProbes, lastProbe, nAnswered,
                   nLocked50, allLocked, out, result>>

\* The ticker delivers a tick; ticker.C holds one, further ticks are dropped.
TickerFire ==
    /\ pc \in {"select", "probing"}
    /\ ~tickReady
    /\ tickReady' = TRUE
    /\ tickEver' = TRUE
    /\ UNCHANGED <<libVars, wait, pc, gpc, startWire, startRes, startResolved, resultCh, errCh,
                   deadlineFired, migCtxDone, lastPercent, lastMsg, lastOperation,
                   acceptResp, acceptEarly, nStart, nProbes, lastProbe, nAnswered,
                   nLocked50, allLocked, out, result>>

\* The timer of context.WithTimeout(ctx, d) fires.
DeadlineFire ==
    /\ pc \in {"select", "probing"}
    /\ ~migCtxDone
    /\ deadlineFired' = TRUE
    /\ migCtxDone' = TRUE
    /\ UNCHANGED <<libVars, wait, pc, gpc, startWire, startRes, startResolved, resultCh, errCh,
                   tickReady, tickEver, lastPercent, lastMsg, lastOperation,
                   acceptResp, acceptEarly, nStart, nProbes, lastProbe, nAnswered,
                   nLocked50, allLocked, out, result>>

\* case <-ticker.C: the probe is sent.
SelectTick ==
    /\ pc = "select"
    /\ tickReady
    /\ tickReady' = FALSE
    /\ nProbes' = Sat(nProbes)
    /\ pc' = "probing"
    /\ UNCHANGED <<libVars, wait, gpc, startWire, startRes, startResolved, resultCh, errCh,
                   tickEver, deadlineFired, migCtxDone, lastPercent, lastMsg,
                   lastOperation, acceptResp, acceptEarly, nStart, lastProbe,
                   nAnswered, nLocked50, allLocked, out, result>>

\* An operation line is printed when the description is new.
OperationChanged(e) == e.info # "" /\ e.info # lastOperation

\* Mutant of ProgressChanged: a progress line on every locked poll.
ProgressAlways(info) == TRUE

\* A progress line is printed when the percent or the message is new.
ProgressChanged(info) == info.percent # lastPercent \/ info.msg # lastMsg

\* case <-ticker.C, after GetMigrateLocations returned.
ProbeReturn(w) ==
    /\ pc = "probing"
    /\ Reaches(client, "migrate/getLocations", w, ProbeNetFail)
    /\ lastProbe' = w
    /\ nAnswered' = Sat(nAnswered)
    /\ nLocked50' = IF w = Locked50 THEN Sat(nLocked50) ELSE nLocked50
    /\ LET r == GetMigrateLocations(client, w, CtxDone(ProbeContext))
           e == GetBWHError(r.err)
       IN  /\ allLocked' = (allLocked /\ IsLockedError(r.err))
           /\ IF r.err.kind # "nil"
              THEN /\ pc' = "select"
                   /\ result' = result
                   /\ migCtxDone' = migCtxDone
                   /\ IF e.ok /\ IsLockedError(r.err)
                      THEN LET op == OperationChanged(e.err)
                               pr == e.err.lock.present /\ ProgressChanged(e.err.lock)
                           IN  /\ lastOperation' = IF op THEN e.err.info ELSE lastOperation
                               /\ lastPercent' = IF pr THEN e.err.lock.percent ELSE lastPercent
                               /\ lastMsg' = IF pr THEN e.err.lock.msg ELSE lastMsg
                               /\ out' = [out EXCEPT
                                      !.opLines = IF op THEN Sat(@) ELSE @,
                                      !.progLines = IF pr THEN Sat(@) ELSE @,
                                      !.progPair = IF pr
                                                   THEN <<e.err.lock.percent, e.err.lock.msg>>
                                                   ELSE @]
                      ELSE UNCHANGED <<lastOperation, lastPercent, lastMsg, out>>
              ELSE /\ out' = PrintUnlocked(out, r.val, acceptResp)
                   /\ result' = ReturnNil
                   /\ pc' = "done"
                   /\ migCtxDone' = TRUE
                   /\ UNCHANGED <<lastOperation, lastPercent, lastMsg>>
    /\ UNCHANGED <<libVars, wait, gpc, startWire, startRes, startResolved, resultCh, errCh,
                   tickReady, tickEver, deadlineFired, acceptResp, acceptEarly, nStart,
                   nProbes>>

\* case resp := <-resultCh
SelectResult ==
    /\ pc = "select"
    /\ resultCh # <<>>
    /\ acceptResp' = Head(resultCh)
    /\ acceptEarly' = (nProbes = 0)
    /\ resultCh' = Tail(resultCh)
    /\ out' = PrintAccepted(out, Head(resultCh))
    /\ UNCHANGED <<libVars, wait, pc, gpc, startWire, startRes, startResolved, errCh, tickReady,
                   tickEver, deadlineFired, migCtxDone, lastPercent, lastMsg,
                   lastOperation, nStart, nProbes, lastProbe, nAnswered, nLocked50,
                   allLocked, result>>

\* case e := <-errCh
SelectErr ==
    /\ pc = "select"
    /\ errCh # <<>>
    /\ errCh' = Tail(errCh)
    /\ IF IsLockedError(Head(errCh))
       THEN UNCHANGED <<pc, result, migCtxDone>>
       ELSE /\ result' = ReturnErr("migration failed", Head(errCh))
            /\ pc' = "done"
            /\ migCtxDone' = TRUE
    /\ UNCHANGED <<libVars, wait, gpc, startWire, startRes, startResolved, resultCh, tickReady,
                   tickEver, deadlineFired, lastPercent, lastMsg, lastOperation,
                   acceptResp, acceptEarly, nStart, nProbes, lastProbe, nAnswered,
                   nLocked50, allLocked, out>>

\* case <-migCtx.Done()
SelectTimeout ==
    /\ pc = "select"
    /\ CtxDone("migCtx")
    /\ result' = ReturnErr("migration timed out", NilErr)
    /\ pc' = "done"
    /\ UNCHANGED <<libVars, wait, gpc, startWire, startRes, startResolved, resultCh, errCh,
                   tickReady, tickEver, deadlineFired, migCtxDone, lastPercent,
                   lastMsg, lastOperation, acceptResp, acceptEarly, nStart, nProbes,
                   lastProbe, nAnswered, nLocked50, allLocked, out>>

Next ==
    \/ \E w \in StartWires : StartNoWait(w)
    \/ StartWait
    \/ TickerFire
    \/ DeadlineFire
    \/ SelectTick
    \/ \E w \in StartWires : StartReturn(w)
    \/ GoSend
    \/ \E w \in ProbeWires : ProbeReturn(w)
    \/ SelectResult
    \/ SelectErr
    \/ SelectTimeout

Spec == Init /\ [][Next]_vars

\* The fairness the scheduling gives: each HTTP call returns (its context and
\* the client time out), the goroutine is scheduled, and select picks among the
\* ready cases at random, so a case ready at infinitely many selects is taken.
Fairness ==
    /\ WF_vars(StartWait)
    /\ WF_vars(\E w \in StartWires : StartReturn(w))
    /\ WF_vars(GoSend)
    /\ WF_vars(\E w \in ProbeWires : ProbeReturn(w))
    /\ SF_vars(SelectTimeout)

FairSpec == Spec /\ Fairness

\* ------------------------------------------------------------------ claims

\* e is the resource-locked error: a domain error with code 788888.
ResourceLocked(e) == e.kind = "bwh" /\ e.code = 788888

\* The probe answered by w failed with an error that is not the locked error.
HardProbeError(w) ==
    LET r == GetMigrateLocations(client, w, FALSE)
    IN  r.err.kind # "nil" /\ ~ResourceLocked(r.err)

\* The start call has returned an error that is not the locked error.
StartFailedHard ==
    wait /\ startResolved /\ startRes.err.kind # "nil" /\ ~ResourceLocked(startRes.err)

\* C1: in wait mode, when the most recent probe has returned an error other
\* than the locked error, the protocol has terminated with a failure (it is not
\* back in the select, from where a further probe would be sent).
C1_ProbeHardErrorTerminates ==
    (wait /\ nAnswered > 0 /\ pc # "probing" /\ HardProbeError(lastProbe))
        => (pc = "done" /\ result.ret = "error")

\* C2: in wait mode, when the start call has resolved with an error other than
\* the locked error, the protocol terminates with a failure: once that error
\* has been produced and left in errCh, the step that ends the invocation never
\* ends it in success.
C2_StartHardErrorFails ==
    [][(StartFailedHard /\ gpc = "exited" /\ pc # "done" /\ pc' = "done")
          => result'.ret = "error"]_vars

\* The start call was still pending when migCtx was cancelled: it is pending
\* now, or it returned the cancellation error.
StartPendingAtCancel == ~startResolved \/ startRes.err = TransportErr("send")

\* C3: in wait mode, when the deadline has elapsed before any probe succeeded,
\* with the start call still pending or cancelled by that same deadline, the
\* result of the protocol is the timeout failure.
C3_DeadlineGivesTimeout ==
    (wait /\ pc = "done" /\ deadlineFired /\ StartPendingAtCancel)
        => result = ReturnErr("migration timed out", NilErr)

\* The protocol has ended with an error.
EndedWithError == pc = "done" /\ result.ret = "error"

\* C4: in wait mode with a probe that returns the locked error on every poll,
\* once the deadline has fired the protocol eventually ends with an error.
C4_LockedForeverTimesOut ==
    (wait /\ deadlineFired /\ allLocked) ~> (EndedWithError \/ ~allLocked)

\* The deadline fired while every one of several probes returned locked, a
\* further probe was sent after it, and the protocol ended with the timeout.
C4_Witness ==
    /\ wait /\ deadlineFired /\ allLocked
    /\ nAnswered = 3
    /\ pc = "done"
    /\ result = ReturnErr("migration timed out", NilErr)

\* The start request was accepted at once: the loop received the acceptance
\* before it sent any probe.
AcceptReceived == wait /\ startRes.err.kind = "nil" /\ ~acceptResp.nil /\ acceptEarly

\* The scenario of C5 so far: every probe answered locked (50%, "Copying disk"),
\* within the deadline.
C5_Polling ==
    /\ AcceptReceived /\ ~deadlineFired
    /\ nAnswered \in {1, 2} /\ nLocked50 = nAnswered

\* The whole scenario of C5: two locked polls, the third succeeds (a successful
\* probe ends the loop, so the two answers before it are the locked ones).
C5_Scenario ==
    /\ AcceptReceived /\ ~deadlineFired
    /\ nAnswered = 3 /\ nLocked50 = 2 /\ lastProbe = ProbeOk

\* The end of the scenario: success with the current location after three probes.
C5_Success ==
    /\ pc = "done" /\ result = ReturnNil
    /\ out.unlocked = 1 /\ out.location = "USCA_2"
    /\ nProbes = 3

\* C5 as claimed: in the scenario the protocol reports progress exactly twice,
\* then success with the current location after exactly three probes.
C5_ProgressTwice == C5_Scenario => (out.progLines = 2 /\ C5_Success)

\* C5 as amended: progress is reported exactly once (the second poll repeats
\* the pair of the first and prints nothing), the protocol keeps polling through
\* the two locked polls, and the third probe ends it in success with the current
\* location after exactly three probes.
C5_ProgressOnce ==
    /\ C5_Polling => (out.progLines = 1 /\ out.opLines = 0 /\ pc # "done")
    /\ C5_Scenario => (out.progLines = 1 /\ out.opLines = 0 /\ C5_Success)

C5_Witness == C5_Scenario /\ C5_Success /\ out.progLines = 1 /\ out.accepted = 1

\* The start call has returned a domain error other than the locked error.
StartDomainError ==
    wait /\ startResolved /\ startRes.err.kind = "bwh" /\ ~ResourceLocked(startRes.err)

\* C6 as claimed: when the start call returns a non-lock domain error, no probe
\* is ever sent in that invocation and the protocol ends with that error.
C6_NoProbeEver ==
    StartDomainError =>
        /\ nProbes = 0
        /\ pc = "done" => result = ReturnErr("migration failed", startRes.err)

\* C6 as amended: when the start call returns a non-lock domain error and the
\* loop receives it before the ticker has fired and before the deadline, the
\* protocol ends with that error as soon as the loop has received it, and no
\* probe was sent. (A start call still pending at a tick is probed meanwhile.)
C6_NoProbeBeforeFirstTick ==
    (StartDomainError /\ ~tickEver /\ ~deadlineFired) =>
        /\ nProbes = 0
        /\ pc = "done" => result = ReturnErr("migration failed", startRes.err)
        /\ (gpc = "exited" /\ errCh = <<>>) => pc = "done"

C6_Witness ==
    /\ StartDomainError /\ ~tickEver /\ ~deadlineFired
    /\ startRes.err.code = 1
    /\ pc = "done" /\ result = ReturnErr("migration failed", startRes.err)
    /\ nProbes = 0

\* C7: after the deadline has fired, a request in flight (the start call, a
\* probe) runs under a context the deadline has cancelled.
C7_DeadlineGovernsRequests ==
    /\ (gpc = "calling" /\ deadlineFired) => CtxDone(StartContext)
    /\ (pc = "probing" /\ deadlineFired) => CtxDone(ProbeContext)

\* The send the goroutine is about to do does not block.
SendReady ==
    IF startRes.err.kind # "nil" THEN CanSend(errCh) ELSE CanSend(resultCh)

\* C8: the goroutine of the start call is not leaked: its send never blocks,
\* whatever the loop is doing or has done, and it always comes to its end.
C8_GoroutineEnds ==
    /\ [](gpc = "send" => SendReady)
    /\ (gpc = "calling") ~> (gpc = "exited")

\* The loop returned on an unlock while the start call was pending; the deferred
\* cancel ended the call and the goroutine left its error in errCh and ended.
C8_Witness ==
    /\ pc = "done" /\ result = ReturnNil /\ out.unlocked = 1
    /\ gpc = "exited" /\ Len(errCh) = 1

\* C9: when a probe succeeds and the start call had already returned an
\* accepted response with a non-empty new-IP set (the goroutine has left it in
\* resultCh and ended), the addresses are reported with the current location.
C9_AcceptedIPsReported ==
    (wait /\ pc = "done" /\ out.unlocked = 1 /\ gpc = "exited"
          /\ startRes.err.kind = "nil" /\ Len(startRes.val.ips) > 0)
        => /\ out.ipv4 = splitIPsByFamily(startRes.val.ips).ipv4
           /\ out.ipv6 = splitIPsByFamily(startRes.val.ips).ipv6

\* The answer is an HTTP 200 JSON envelope with code 0.
EnvelopeAccepted(w) == w.net /\ w.status = 200 /\ w.json /\ w.base.error = 0

\* The start-migration requests the command has handed to http.Client.Do.
StartRequests == startRes.sent

\* The URL of migrate/start can be built from the base URL of the client.
StartURLBuilt == urlParse(client.baseURL, "migrate/start").ok

\* What the command without --wait does apart from sending: one start call,
\* no probe, no goroutine, and a return when the call resolves: accepted, with
\* the payload printed, when the envelope code is 0, a failure otherwise.
NoWaitOutcome ==
    /\ nProbes = 0 /\ gpc = "none" /\ out.unlocked = 0
    /\ pc = "start" => nStart = 0
    /\ pc = "done" =>
          /\ nStart = 1
          /\ IF StartURLBuilt /\ EnvelopeAccepted(startWire)
             THEN /\ result = ReturnNil
                  /\ out.accepted = 1
                  /\ out.email = startWire.body.email
                  /\ out.ipv4 \o out.ipv6 # <<>> <=> startWire.body.ips # <<>>
             ELSE /\ result.ret = "error"
                  /\ result.msg = "failed to start migration"
                  /\ out = NoOut

\* C10 as stated: without --wait the command sends exactly one start request
\* and no probe, and returns when the call resolves: accepted, with the
\* payload printed, when the envelope code is 0, a failure otherwise.
C10_NoWaitOneRequest ==
    ~wait =>
        /\ NoWaitOutcome
        /\ pc = "start" => StartRequests = <<>>
        /\ pc = "done" => Len(StartRequests) = 1

\* C10, amended: without --wait the command makes one start call and no probe,
\* and returns when the call resolves: the call sends exactly one start
\* request, carrying the target location, when the URL can be built from the
\* client's base URL, and none when it cannot, which is a failure; the result
\* is accepted, with the payload printed, when the envelope code is 0, a
\* failure otherwise.
C10_NoWaitSingleCall ==
    ~wait =>
        /\ NoWaitOutcome
        /\ pc = "start" => StartRequests = <<>>
        /\ (pc = "done" /\ StartURLBuilt) =>
              /\ Len(StartRequests) = 1
              /\ StartRequests[1].endpoint = "migrate/start"
              /\ StartRequests[1].query["location"] = TargetLocation
        /\ (pc = "done" /\ ~StartURLBuilt) =>
              /\ StartRequests = <<>>
              /\ result = ReturnErr("failed to start migration", TransportErr("parse"))

C10_Witness ==
    /\ ~wait /\ pc = "done" /\ result = ReturnNil /\ Len(StartRequests) = 1
    /\ out.accepted = 1 /\ out.ipv4 = <<IPv4A>> /\ out.ipv6 = <<IPv6A>>

\* ================================================================ pkg/client

\* Clients: the default base URL or a custom one, two VPS ids.
Clients ==
    { SetBaseURL(NewClient("KEY-A", v), u) :
        v \in {"1001", "2002"}, u \in {defaultBaseURL} \cup MalformedURLs }

\* Parameter maps a caller of the executor passes, the identity keys included.
ParamMaps ==
    { p \in [ParamKeys -> {Absent, "9999", "KEY-X", "USCA_2", "snap1"}] :
        /\ p["veid"] \in {Absent, "9999"}
        /\ p["api_key"] \in {Absent, "KEY-X"}
        /\ p["location"] \in {Absent, "USCA_2"}
        /\ p["snapshot"] \in {Absent, "snap1"} }

OSBody == OSResp("debian-12-x86_64", <<"debian-12-x86_64", "ubuntu-24.04-x86_64">>)

StartBody == StartResp("me@example.com", <<IPv4A>>)

\* Answers to a request whose result has the shape of `body`.
ClientWires(body, zero) ==
    { Wire(TRUE, 200, TRUE, OkBase, body),
      Wire(TRUE, 200, TRUE, Locked50.base, zero),
      Wire(TRUE, 200, TRUE, Locked80.base, body),
      Wire(TRUE, 200, TRUE, ProbeAuthFail.base, zero),
      Wire(TRUE, 200, TRUE, BaseResponse(1, "Invalid location", "", NoLock), body),
      Wire(TRUE, 500, TRUE, Locked50.base, zero),
      Wire(TRUE, 200, FALSE, OkBase, zero),
      Wire(FALSE, 0, FALSE, OkBase, zero) }

\* What a caller keeps of one call: the requests sent, the result, the error
\* and the answers of the error predicates on it.
Called(op, params, w, sent, typed, val, err) ==
    [client |-> client, op |-> op, params |-> params, wire |-> w, sent |-> sent,
     typed |-> typed, val |-> val, err |-> err,
     isBWH |-> IsBWHError(err), isLocked |-> IsLockedError(err),
     isAuth |-> IsAuthenticationError(err)]

\* The executor run on an arbitrary parameter map.
CallDoRequest(params, w) ==
    /\ LET r == doRequest(client, "getAvailableOS", params, w)
       IN  cl' = Called("doRequest", params, w, r.sent, FALSE,
                        IF r.decoded THEN w.body ELSE NoOSResp, r.err)
    /\ wrp' = NoWrap
    /\ UNCHANGED <<migrateVars, client, decodeVars, tokenVars, cliVars, aggVars, configVars, errorVars>>

CallDoRequestWithTimeout(params, w) ==
    /\ LET r == doRequestWithTimeout(client, "migrate/start", params, w)
       IN  cl' = Called("doRequestWithTimeout", params, w, r.sent, FALSE,
                        IF r.decoded THEN w.body ELSE NoStartResp, r.err)
    /\ wrp' = NoWrap
    /\ UNCHANGED <<migrateVars, client, decodeVars, tokenVars, cliVars, aggVars, configVars, errorVars>>

CallGetAvailableOS(w) ==
    /\ LET r == GetAvailableOS(client, w)
       IN  cl' = Called("GetAvailableOS", NoParams, w, r.sent, TRUE, r.val, r.err)
    /\ wrp' = NoWrap
    /\ UNCHANGED <<migrateVars, client, decodeVars, tokenVars, cliVars, aggVars, configVars, errorVars>>

CallStartMigration(locationID, w) ==
    /\ LET r == StartMigration(client, locationID, w)
       IN  cl' = Called("StartMigration", [NoParams EXCEPT !["location"] = locationID],
                        w, r.sent, TRUE, r.val, r.err)
    /\ wrp' = NoWrap
    /\ UNCHANGED <<migrateVars, client, decodeVars, tokenVars, cliVars, aggVars, configVars, errorVars>>

CallDeleteSnapshot(fileName, w) ==
    /\ LET r == DeleteSnapshot(client, fileName, w)
       IN  cl' = Called("DeleteSnapshot", [NoParams EXCEPT !["snapshot"] = fileName],
                        w, r.sent, FALSE, NoOSResp, r.err)
    /\ wrp' = NoWrap
    /\ UNCHANGED <<migrateVars, client, decodeVars, tokenVars, cliVars, aggVars, configVars, errorVars>>

\* Client.SetBaseURL on the client in use, between two calls.
CallSetBaseURL(baseURL) ==
    /\ client' = SetBaseURL(client, baseURL)
    /\ UNCHANGED <<migrateVars, cl, wrp, decodeVars, tokenVars, cliVars, aggVars,
                   configVars, errorVars>>

\* A command returns the error of the last call wrapped with its context, and
\* a caller asks the predicates about the error it gets.
WrapError(context) ==
    /\ cl.err.kind # "nil"
    /\ wrp' = [called |-> TRUE, context |-> context, cause |-> cl.err,
               err |-> Errorf(context, cl.err),
               original |-> Recognised(cl.err),
               wrapped |-> Recognised(Errorf(context, cl.err))]
    /\ UNCHANGED <<migrateVars, client, cl, decodeVars, tokenVars, cliVars, aggVars,
                   configVars, errorVars>>

ClientInit ==
    /\ MigrateInit
    /\ ~wait
    /\ client \in Clients
    /\ cl = NoCall
    /\ wrp = NoWrap
    /\ DecodeAtRest
    /\ TokenAtRest
    /\ CliAtRest
    /\ AggAtRest
    /\ ConfigAtRest
    /\ ErrorAtRest

ClientNext ==
    \/ \E p \in ParamMaps, w \in ClientWires(OSBody, NoOSResp) : CallDoRequest(p, w)
    \/ \E p \in ParamMaps, w \in ClientWires(StartBody, NoStartResp) :
          CallDoRequestWithTimeout(p, w)
    \/ \E w \in ClientWires(OSBody, NoOSResp) : CallGetAvailableOS(w)
    \/ \E l \in {"USCA_2", ""}, w \in ClientWires(StartBody, NoStartResp) :
          CallStartMigration(l, w)
    \/ \E f \in {"snap1", "snap2"}, w \in ClientWires(OSBody, NoOSResp) :
          CallDeleteSnapshot(f, w)
    \/ \E u \in {defaultBaseURL} \cup MalformedURLs : CallSetBaseURL(u)
    \/ \E c \in {"failed to start migration", "failed to restart VPS"} : WrapError(c)

ClientSpec == ClientInit /\ [][ClientNext]_vars

\* ------------------------------------------------------------ claims C11-C15

DomainOps == {"GetAvailableOS", "StartMigration", "DeleteSnapshot"}

\* The request URL could be built.
URLBuilt == cl.client.baseURL \notin MalformedURLs

\* The envelope of the answer was decoded.
EnvelopeDecoded == URLBuilt /\ cl.wire.net /\ cl.wire.status = 200 /\ cl.wire.json

\* C11: every request the executor builds carries the client's own veid and
\* api_key, whatever parameter map the caller passed.
C11_IdentityNeverOverridden ==
    \A i \in 1..Len(cl.sent) :
        /\ cl.sent[i].query["veid"] = cl.client.veid
        /\ cl.sent[i].query["api_key"] = cl.client.apiKey

\* C12: a typed operation whose envelope was decoded returns the populated
\* result and no error on code 0, and the nil result and a domain error that
\* carries the envelope's code, message, error info and locking info otherwise.
C12_EnvelopeToResult ==
    (cl.typed /\ EnvelopeDecoded) =>
        IF cl.wire.base.error = 0
        THEN cl.val = cl.wire.body /\ ~cl.val.nil /\ cl.err.kind = "nil"
        ELSE /\ cl.val.nil
             /\ cl.err.kind = "bwh"
             /\ cl.err.code = cl.wire.base.error
             /\ cl.err.message = cl.wire.base.message
             /\ cl.err.info = cl.wire.base.info
             /\ cl.err.lock = cl.wire.base.lock

C12_Witness ==
    /\ cl.typed /\ EnvelopeDecoded
    /\ cl.wire.base.error # 0
    /\ cl.wire.base.lock.present /\ cl.wire.base.info # ""
    /\ ~cl.wire.body.nil
    /\ cl.val.nil /\ cl.err.lock.present

\* C13: IsAuthenticationError holds exactly for domain errors of code 700005,
\* IsLockedError exactly for domain errors of code 788888, and never both.
C13_ErrorPredicates ==
    /\ cl.isAuth <=> (cl.err.kind = "bwh" /\ cl.err.code = 700005)
    /\ cl.isLocked <=> (cl.err.kind = "bwh" /\ cl.err.code = 788888)
    /\ ~(cl.isAuth /\ cl.isLocked)

C13_Witness ==
    /\ cl.err.kind = "bwh" /\ cl.err.code = 700005
    /\ cl.isAuth /\ ~cl.isLocked

\* The transport failed: nothing came back, or not a 200, or not the JSON shape.
TransportFailure == ~cl.wire.net \/ cl.wire.status # 200 \/ ~cl.wire.json

\* C14: a transport failure gives an error that is not a domain error and on
\* which the three predicates are false; a decoded envelope with a nonzero
\* code gives a domain error.
C14_TransportVersusDomain ==
    (cl.op \in DomainOps) =>
        /\ TransportFailure =>
              /\ cl.err.kind = "transport"
              /\ ~cl.isBWH /\ ~cl.isLocked /\ ~cl.isAuth
        /\ (EnvelopeDecoded /\ cl.wire.base.error # 0) =>
              cl.err.kind = "bwh" /\ cl.isBWH

C14_Witness ==
    /\ cl.op \in DomainOps
    /\ cl.wire.net /\ cl.wire.status = 500 /\ cl.wire.base.error = 788888
    /\ cl.err.kind = "transport" /\ ~cl.isLocked

\* The provider answered "VE is currently locked".
AnsweredLocked == EnvelopeDecoded /\ cl.wire.base.error = 788888

\* C15 as stated: a domain operation sends exactly one request, and returns
\* the locked error when that is the answer.
C15_ExactlyOneRequest ==
    (cl.op \in DomainOps) =>
        /\ Len(cl.sent) = 1
        /\ AnsweredLocked => (cl.err.kind = "bwh" /\ cl.err.code = 788888)

\* C15, amended: a domain operation sends at most one request, exactly one
\* when the request URL can be built, and a locked answer is returned as the
\* locked error after that one request.
C15_AtMostOneRequest ==
    (cl.op \in DomainOps) =>
        /\ Len(cl.sent) <= 1
        /\ URLBuilt <=> Len(cl.sent) = 1
        /\ AnsweredLocked =>
              /\ cl.err.kind = "bwh" /\ cl.err.code = 788888
              /\ cl.err.lock = cl.wire.base.lock
              /\ Len(cl.sent) = 1

C15_Witness ==
    /\ cl.op \in DomainOps
    /\ AnsweredLocked
    /\ Len(cl.sent) = 1
    /\ cl.isLocked

\* ================================================================ FlexibleInt

\* Number literals the provider sends, inside and outside the int64 range.
NumberTexts ==
    { <<"0">>,
      <<"7">>,
      <<"-", "7">>,
      <<"4", "2">>,
      <<"-", "0">>,
      <<"2", "1", "4", "7", "4", "8", "3", "6", "4", "8">>,
      <<"9", "2", "2", "3", "3", "7", "2", "0", "3", "6", "8", "5", "4", "7", "7", "5", "8", "0", "7">>,
      <<"-", "9", "2", "2", "3", "3", "7", "2", "0", "3", "6", "8", "5", "4", "7", "7", "5", "8", "0", "8">>,
      <<"9", "2", "2", "3", "3", "7", "2", "0", "3", "6", "8", "5", "4", "7", "7", "5", "8", "0", "8">>,
      <<"-", "9", "2", "2", "3", "3", "7", "2", "0", "3", "6", "8", "5", "4", "7", "7", "5", "8", "0", "9">>,
      <<"1", ".", "5">>,
      <<"1", "e", "3">> }

\* String contents: the same digits quoted, and strings that are no integer.
StringTexts ==
    NumberTexts \cup
    { <<>>,
      <<"a", "b", "c">>,
      <<"+", "7">>,
      <<"0", "0", "7">>,
      <<" ", "7">>,
      <<"7", " ">>,
      <<"0", "x", "1", "F">>,
      <<"1", "_", "0", "0", "0">>,
      <<"-">>,
      <<"t", "r", "u", "e">> }

JSONValues ==
    { JSON("number", t) : t \in NumberTexts } \cup
    { JSON("string", t) : t \in StringTexts } \cup
    { JSON("null", <<>>), JSON("true", <<>>), JSON("false", <<>>),
      JSON("object", <<>>) }

\* One field of a response is decoded; the field may have held a value.
Decode(data) ==
    /\ fi' = [called |-> TRUE, before |-> fi.value, data |-> data,
              value |-> UnmarshalJSON(data).value, err |-> UnmarshalJSON(data).err]
    /\ UNCHANGED <<migrateVars, clientVars, tokenVars, cliVars, aggVars, configVars, errorVars>>

DecodeInit ==
    /\ MigrateInit
    /\ ~wait
    /\ ClientAtRest
    /\ fi = NoDecode
    /\ TokenAtRest
    /\ CliAtRest
    /\ AggAtRest
    /\ ConfigAtRest
    /\ ErrorAtRest

DecodeNext == \E d \in JSONValues : Decode(d)

DecodeSpec == DecodeInit /\ [][DecodeNext]_vars

\* ------------------------------------------------------------------ claim C16

\* Base-10 texts of 64-bit integers, as FormatInt writes them.
Int64Texts ==
    { <<"0">>,
      <<"7">>,
      <<"-", "7">>,
      <<"4", "2">>,
      <<"2", "1", "4", "7", "4", "8", "3", "6", "4", "8">>,
      <<"9", "2", "2", "3", "3", "7", "2", "0", "3", "6", "8", "5", "4", "7", "7", "5", "8", "0", "7">>,
      <<"-", "9", "2", "2", "3", "3", "7", "2", "0", "3", "6", "8", "5", "4", "7", "7", "5", "8", "0", "8">> }

\* The integer a base-10 text of Int64Texts stands for.
IntegerOf(t) ==
    IF t[1] = "-" THEN Int64(TRUE, Tail(t)) ELSE Int64(FALSE, t)

\* String contents that are not a number.
NonNumericTexts ==
    { <<>>,
      <<"a", "b", "c">>,
      <<" ", "7">>,
      <<"7", " ">>,
      <<"0", "x", "1", "F">>,
      <<"1", "_", "0", "0", "0">>,
      <<"-">>,
      <<"t", "r", "u", "e">> }

\* C16: a 64-bit integer decodes to itself from a JSON number and from a JSON
\* string alike; null, booleans, the empty string and non-numeric strings
\* decode to 0; UnmarshalJSON returns no error for any input.
C16_FlexibleIntDecoding ==
    fi.called =>
        /\ fi.err = "nil"
        /\ (fi.data.kind \in {"number", "string"} /\ fi.data.text \in Int64Texts) =>
              fi.value = IntegerOf(fi.data.text)
        /\ fi.data.kind \in {"null", "true", "false"} => fi.value = Zero64
        /\ (fi.data.kind = "string" /\ fi.data.text \in NonNumericTexts) =>
              fi.value = Zero64

C16_Witness ==
    /\ fi.called
    /\ fi.data = JSON("string", <<"-", "9", "2", "2", "3", "3", "7", "2", "0", "3", "6", "8", "5", "4", "7", "7", "5", "8", "0", "8">>)
    /\ fi.value = Int64(TRUE, MinInt64Digits)
    /\ fi.before # Zero64

\* ======================================================= validateBackupToken

HexPattern ==
    <<"0", "1", "2", "3", "4", "5", "6", "7", "8", "9", "a", "b", "c", "d", "e", "f">>

\* A string of n lower-case hex digits.
HexString(n) == [i \in 1..n |-> HexPattern[(i % 16) + 1]]

\* Characters put into a hex string: hex digits of both cases and others.
TokenChars == {"0", "9", "a", "f", "A", "F", "g", "z", " ", "-", "\n", "é"}

\* Tokens a user passes: hex strings around the length 40, and strings of 38 to
\* 41 characters with one character replaced at any position.
Tokens ==
    { HexString(n) : n \in {0, 1, TokenLen - 1, TokenLen, TokenLen + 1, 2 * TokenLen} }
    \cup UNION { { [HexString(n) EXCEPT ![p] = c] : p \in {1, 2, n - 1, n}, c \in TokenChars } :
                    n \in (TokenLen - 2)..(TokenLen + 1) }

ValidateToken(t) ==
    /\ tok' = [called |-> TRUE, token |-> t, err |-> validateBackupToken(t)]
    /\ UNCHANGED <<migrateVars, clientVars, decodeVars, cliVars, aggVars, configVars, errorVars>>

TokenInit ==
    /\ MigrateInit
    /\ ~wait
    /\ ClientAtRest
    /\ DecodeAtRest
    /\ tok = NoTokenCall
    /\ CliAtRest
    /\ AggAtRest
    /\ ConfigAtRest
    /\ ErrorAtRest

TokenNext == \E t \in Tokens : ValidateToken(t)

TokenSpec == TokenInit /\ [][TokenNext]_vars

\* ------------------------------------------------------------------ claim C17

\* C17: validateBackupToken returns nil exactly for the strings of 40
\* characters that are all lower-case hex digits.
C17_TokenAcceptedIffHex40 ==
    tok.called =>
        (tok.err = "nil" <=>
            /\ Len(tok.token) = 40
            /\ \A i \in 1..Len(tok.token) :
                  tok.token[i] \in {"0", "1", "2", "3", "4", "5", "6", "7", "8", "9",
                                    "a", "b", "c", "d", "e", "f"})

\* A string of 40 hex digits whose first one is upper-case is rejected.
C17_Witness ==
    /\ tok.called
    /\ Len(tok.token) = 40
    /\ tok.token[1] = "F"
    /\ tok.err = "format"

\* ======================================================== validating commands

GoodToken == HexString(TokenLen)

\* Tokens the validator rejects: too short, and upper-case.
ShortToken == HexString(TokenLen - 1)

UpperToken == [HexString(TokenLen) EXCEPT ![1] = "F"]

BackupArgs ==
    {<<>>, <<GoodToken>>, <<ShortToken>>, <<UpperToken>>, <<GoodToken, GoodToken>>}

\* What ListBackups returns: an error, or the backups by token.
BackupLists ==
    { [ok |-> FALSE, backups |-> {}], [ok |-> TRUE, backups |-> {}],
      [ok |-> TRUE, backups |-> {GoodToken}] }

Answers == {Typed("y"), Typed("n"), EndOfInput}

GoodKey == <<"ssh-ed25519", " ", "AAAAC3Nz", " ", "me@host">>

PaddedKey == <<" ", "ssh-rsa", "\t", "AAAAB3Nz">>

\* Keys isValidSshKey rejects: no type, an unknown type, a type alone.
BareKey == <<"AAAAC3Nz", " ", "me@host">>

UnknownTypeKey == <<"ssh-foo", " ", "AAAAC3Nz">>

TypeOnlyKey == <<"ssh-rsa">>

\* A type followed by a carriage return: one field.
TypeAndReturnKey == <<"ssh-rsa", "\r">>

\* A carriage return between the type and the key: two fields.
ReturnKey == <<"ssh-rsa", "\r", "AAAAB3Nz">>

KeyLists ==
    { <<>>, <<GoodKey>>, <<PaddedKey>>, <<GoodKey, PaddedKey>>, <<BareKey>>,
      <<UnknownTypeKey>>, <<TypeOnlyKey>>, <<GoodKey, UnknownTypeKey>>,
      <<BareKey, GoodKey>>, <<TypeAndReturnKey>>, <<ReturnKey>> }

\* Values of --os; the provider advertises the templates of OSBody.
OSTemplates ==
    {"", "ubuntu-24.04-x86_64", "windows-11", "Debian-12-x86_64", "centos-7-x86_64"}

\* What GetAvailableOS returns to the command.
OSAnswers ==
    { [ok |-> FALSE, templates |-> <<>>], [ok |-> TRUE, templates |-> OSBody.templates],
      [ok |-> TRUE, templates |-> <<"centos-7-x86_64", "ubuntu-24.04-x86_64">>] }

ReinstallAnswers == {Typed("ubuntu-24.04-x86_64"), Typed("y"), EndOfInput}

GoodSubnet == <<"2", "0", "0", "1", ":", "d", "b", "8", ":", "1", "2", "3", "4", ":", "5", "6", "7", "8", ":", ":">>

SubnetArgs ==
    { <<>>, <<GoodSubnet>>, <<GoodSubnet \o <<"/", "6", "4">> >>,
      <<GoodSubnet \o <<"/", "4", "8">> >>, <<IPv4A>>, <<V4MappedLiteral>>,
      <<<<"n", "o", "t", "-", "a", "n", "-", "i", "p">>>>, <<GoodSubnet, GoodSubnet>> }

RunBackupCopyToSnapshot(in) ==
    /\ cli' = [cmd |-> "backup copy-to-snapshot", in |-> in,
               calls |-> backupCopyToSnapshotCmd(in).calls,
               ret |-> backupCopyToSnapshotCmd(in).ret]
    /\ UNCHANGED <<migrateVars, clientVars, decodeVars, tokenVars, aggVars, configVars, errorVars>>

RunSshSet(in) ==
    /\ cli' = [cmd |-> "ssh set", in |-> in,
               calls |-> sshSetCmd(in).calls, ret |-> sshSetCmd(in).ret]
    /\ UNCHANGED <<migrateVars, clientVars, decodeVars, tokenVars, aggVars, configVars, errorVars>>

RunReinstall(in) ==
    /\ cli' = [cmd |-> "reinstall", in |-> in,
               calls |-> reinstallCmd(in).calls, ret |-> reinstallCmd(in).ret,
               os |-> reinstallCmd(in).os]
    /\ UNCHANGED <<migrateVars, clientVars, decodeVars, tokenVars, aggVars, configVars, errorVars>>

RunIpv6Delete(in) ==
    /\ cli' = [cmd |-> "ipv6 delete", in |-> in,
               calls |-> ipv6DeleteCmd(in).calls, ret |-> ipv6DeleteCmd(in).ret]
    /\ UNCHANGED <<migrateVars, clientVars, decodeVars, tokenVars, aggVars, configVars, errorVars>>

CliInit ==
    /\ MigrateInit
    /\ ~wait
    /\ ClientAtRest
    /\ DecodeAtRest
    /\ TokenAtRest
    /\ cli = NoRun
    /\ AggAtRest
    /\ ConfigAtRest
    /\ ErrorAtRest

CliNext ==
    \/ \E in \in [args : BackupArgs, yes : BOOLEAN, cfgOk : BOOLEAN, list : BackupLists,
                  answer : Answers, copyOk : BOOLEAN] : RunBackupCopyToSnapshot(in)
    \/ \E in \in [cfgOk : BOOLEAN, file : {"", "unreadable", "keys.txt"}, keys : KeyLists,
                  updateOk : BOOLEAN] : RunSshSet(in)
    \/ \E in \in [osTemplate : OSTemplates, listOnly : BOOLEAN, force : BOOLEAN,
                  cfgOk : BOOLEAN, os : OSAnswers, answer : ReinstallAnswers,
                  reinstallOk : BOOLEAN] : RunReinstall(in)
    \/ \E in \in [args : SubnetArgs, yes : BOOLEAN, answer : Answers, cfgOk : BOOLEAN,
                  deleteOk : BOOLEAN] : RunIpv6Delete(in)

CliSpec == CliInit /\ [][CliNext]_vars

\* ------------------------------------------------------------------ claim C18

\* The operations that change something at the provider.
MutatingCalls == {"backup/copyToSnapshot", "updateSshKeys", "reinstallOS", "ipv6/delete"}

\* The run got as far as its validation with an input that is malformed:
\* a bad token, a key without a known type, a template the provider does not
\* advertise, an argument that is no IPv6 address.
MalformedInput ==
    \/ /\ cli.cmd = "backup copy-to-snapshot"
       /\ Len(cli.in.args) = 1
       /\ cli.in.args[1] \in {ShortToken, UpperToken}
    \/ /\ cli.cmd = "ssh set"
       /\ cli.in.cfgOk /\ cli.in.file # "unreadable"
       /\ \E i \in 1..Len(cli.in.keys) :
             cli.in.keys[i] \in {BareKey, UnknownTypeKey, TypeOnlyKey, TypeAndReturnKey}
    \/ /\ cli.cmd = "reinstall"
       /\ cli.in.cfgOk /\ cli.in.os.ok /\ ~cli.in.listOnly
       /\ cli.in.osTemplate \in {"windows-11", "Debian-12-x86_64"}
    \/ /\ cli.cmd = "ipv6 delete"
       /\ Len(cli.in.args) = 1
       /\ cli.in.args[1] \notin {GoodSubnet, GoodSubnet \o <<"/", "6", "4">>}

\* C18 as stated: a malformed input is rejected by the validation before the
\* command has called any client operation.
C18_ValidationBeforeAnyCall ==
    /\ cli.ret = "validation" => cli.calls = <<>>
    /\ (cli.cmd # "none" /\ MalformedInput) => (cli.ret = "validation" /\ cli.calls = <<>>)

\* C18, amended: a malformed input is rejected before any mutating operation
\* is called; backup copy-to-snapshot, ssh set and ipv6 delete have called
\* nothing at all by then, reinstall has called getAvailableOS once.
C18_ValidationBeforeMutation ==
    /\ cli.ret = "validation" =>
          cli.calls = IF cli.cmd = "reinstall" THEN <<"getAvailableOS">> ELSE <<>>
    /\ (cli.cmd # "none" /\ MalformedInput) =>
          /\ cli.ret = "validation"
          /\ \A i \in 1..Len(cli.calls) : cli.calls[i] \notin MutatingCalls

C18_Witness ==
    /\ cli.cmd = "reinstall"
    /\ cli.in.osTemplate = "windows-11" /\ cli.in.force
    /\ cli.ret = "validation"
    /\ cli.calls = <<"getAvailableOS">>

\* ======================================================= aggregateIPv4Ranges

\* Longest address list.
MaxIPs == 3

\* Addresses the provider lists: a run, a gap, the two sides of a /24
\* boundary, and entries that are no IPv4 address.
AddrTexts ==
    { <<"1", "0", ".", "0", ".", "0", ".", "1">>,
      <<"1", "0", ".", "0", ".", "0", ".", "2">>,
      <<"1", "0", ".", "0", ".", "0", ".", "4">>,
      <<"1", "0", ".", "0", ".", "0", ".", "2", "5", "5">>,
      <<"1", "0", ".", "0", ".", "1", ".", "0">>,
      V4MappedLiteral,
      <<"1", "0", ".", "0", ".", "0", ".", "2", "5", "6">>,
      <<"n", "o", "t", "-", "a", "n", "-", "i", "p">> }

IPLists == UNION { [1..n -> AddrTexts] : n \in 0..MaxIPs }

Aggregate ==
    /\ ~agg.called
    /\ agg' = [called |-> TRUE, ips |-> agg.ips,
               ranges |-> aggregateIPv4Ranges(agg.ips).ranges,
               total |-> aggregateIPv4Ranges(agg.ips).total]
    /\ UNCHANGED <<migrateVars, clientVars, decodeVars, tokenVars, cliVars, configVars, errorVars>>

\* The list to aggregate is drawn here; Aggregate applies the function to it.
AggInit ==
    /\ MigrateInit
    /\ ~wait
    /\ ClientAtRest
    /\ DecodeAtRest
    /\ TokenAtRest
    /\ CliAtRest
    /\ agg \in { [NoAggregate EXCEPT !.ips = l] : l \in IPLists }
    /\ ConfigAtRest
    /\ ErrorAtRest

AggNext == Aggregate

AggSpec == AggInit /\ [][AggNext]_vars

\* ------------------------------------------------------------------ claim C19

\* The valid IPv4 texts of AddrTexts and the address each one names.
KnownAddrs ==
    { [text |-> <<"1", "0", ".", "0", ".", "0", ".", "1">>, addr |-> <<10, 0, 0, 1>>],
      [text |-> <<"1", "0", ".", "0", ".", "0", ".", "2">>, addr |-> <<10, 0, 0, 2>>],
      [text |-> <<"1", "0", ".", "0", ".", "0", ".", "4">>, addr |-> <<10, 0, 0, 4>>],
      [text |-> <<"1", "0", ".", "0", ".", "0", ".", "2", "5", "5">>, addr |-> <<10, 0, 0, 255>>],
      [text |-> <<"1", "0", ".", "0", ".", "1", ".", "0">>, addr |-> <<10, 0, 1, 0>>],
      [text |-> V4MappedLiteral, addr |-> <<10, 0, 0, 2>>] }

\* An address as a number (the first byte is below 128 here).
AddrNumber(a) == ((a[1] * 256 + a[2]) * 256 + a[3]) * 256 + a[4]

\* The distinct valid addresses of a list, as numbers.
ValidNumbers(ips) ==
    { AddrNumber(k.addr) : k \in { x \in KnownAddrs : \E i \in 1..Len(ips) : ips[i] = x.text } }

\* The maximal runs of consecutive numbers of a set.
MaximalRuns(N) ==
    { r \in [lo : N, hi : N] :
        /\ r.lo <= r.hi
        /\ \A k \in r.lo..r.hi : k \in N
        /\ (r.lo - 1) \notin N
        /\ (r.hi + 1) \notin N }

\* The run a printed range stands for: "a.b.c.d", "a.b.c.d-e" or "a.b.c.d-e.f.g.h".
RunOfText(t) ==
    LET parts == Split(t, "-")
        first == [i \in 1..4 |-> DecimalValue(Split(parts[1], ".")[i])]
    IN  IF Len(parts) = 1 THEN [lo |-> AddrNumber(first), hi |-> AddrNumber(first)]
        ELSE IF Len(Split(parts[2], ".")) = 1
        THEN [lo |-> AddrNumber(first),
              hi |-> AddrNumber([first EXCEPT ![4] = DecimalValue(parts[2])])]
        ELSE [lo |-> AddrNumber(first),
              hi |-> AddrNumber([i \in 1..4 |-> DecimalValue(Split(parts[2], ".")[i])])]

\* C19: the ranges returned are, in ascending order, exactly the maximal runs
\* of consecutive addresses among the distinct valid inputs, the total is the
\* number of those inputs, and 10.0.0.1, 10.0.0.2, 10.0.0.4 gives "10.0.0.1-2",
\* "10.0.0.4" and 3.
C19_MaximalRuns ==
    agg.called =>
        /\ agg.total = Cardinality(ValidNumbers(agg.ips))
        /\ Len(agg.ranges) = Cardinality(MaximalRuns(ValidNumbers(agg.ips)))
        /\ \A i \in 1..Len(agg.ranges) :
              RunOfText(agg.ranges[i]) \in MaximalRuns(ValidNumbers(agg.ips))
        /\ \A i \in 1..Len(agg.ranges) : \A j \in 1..Len(agg.ranges) :
              i < j => RunOfText(agg.ranges[i]).hi < RunOfText(agg.ranges[j]).lo
        /\ agg.ips = << <<"1", "0", ".", "0", ".", "0", ".", "1">>, <<"1", "0", ".", "0", ".", "0", ".", "2">>, <<"1", "0", ".", "0", ".", "0", ".", "4">> >> =>
              /\ agg.ranges = << <<"1", "0", ".", "0", ".", "0", ".", "1", "-", "2">>, <<"1", "0", ".", "0", ".", "0", ".", "4">> >>
              /\ agg.total = 3

\* The example of the claim, given out of order and with a repeated address.
C19_Witness ==
    /\ agg.called
    /\ agg.ips = << <<"1", "0", ".", "0", ".", "0", ".", "4">>, V4MappedLiteral, <<"1", "0", ".", "0", ".", "0", ".", "1">> >>
    /\ agg.ranges = << <<"1", "0", ".", "0", ".", "0", ".", "1", "-", "2">>, <<"1", "0", ".", "0", ".", "0", ".", "4">> >>
    /\ agg.total = 3

\* ============================================================ config.Manager

\* Names of instances a configuration file holds.
InstanceNames == {"prod", "dev"}

\* What --instance, BWH_INSTANCE and default_instance are set to: nothing, a
\* name of InstanceNames, or a name no file holds.
Selectors == InstanceNames \cup {"", "ghost"}

\* NewManager and Load: the file may hold any instances and any default.
Load(instances, default) ==
    /\ config' = Config([n \in instances |-> InstanceOf(n)], default)
    /\ UNCHANGED <<migrateVars, clientVars, decodeVars, tokenVars, cliVars, aggVars, errorVars,
                   env, resolved, fb, mgr>>

\* The environment the process is started in.
Setenv(value) ==
    /\ env' = value
    /\ UNCHANGED <<migrateVars, clientVars, decodeVars, tokenVars, cliVars, aggVars, errorVars,
                   config, resolved, fb, mgr>>

CallResolveInstance(instanceName) ==
    /\ LET r == ResolveInstance(config, env, instanceName)
       IN  resolved' = [called |-> TRUE, arg |-> instanceName, env |-> env,
                        config |-> config, inst |-> r.inst, name |-> r.name,
                        err |-> r.err]
    /\ fb' = NoFallback
    /\ UNCHANGED <<migrateVars, clientVars, decodeVars, tokenVars, cliVars, aggVars, errorVars,
                   config, env, mgr>>

CallResolveInstanceWithFallback(instanceName) ==
    /\ LET r == ResolveInstance(config, env, instanceName)
           f == resolveInstanceWithFallback(config, env, instanceName)
       IN  /\ resolved' = [called |-> TRUE, arg |-> instanceName, env |-> env,
                           config |-> config, inst |-> r.inst, name |-> r.name,
                           err |-> r.err]
           /\ fb' = [called |-> TRUE, inst |-> f.inst, name |-> f.name,
                     branch |-> f.branch, err |-> f.err]
    /\ UNCHANGED <<migrateVars, clientVars, decodeVars, tokenVars, cliVars, aggVars, errorVars,
                   config, env, mgr>>

ConfigInit ==
    /\ MigrateInit
    /\ ~wait
    /\ ClientAtRest
    /\ DecodeAtRest
    /\ TokenAtRest
    /\ CliAtRest
    /\ AggAtRest
    /\ ConfigAtRest
    /\ ErrorAtRest

ConfigNext ==
    \/ \E i \in SUBSET InstanceNames, d \in Selectors : Load(i, d)
    \/ \E v \in Selectors : Setenv(v)
    \/ \E n \in Selectors : CallResolveInstance(n)
    \/ \E n \in Selectors : CallResolveInstanceWithFallback(n)

ConfigSpec == ConfigInit /\ [][ConfigNext]_vars

\* ------------------------------------------------------------------ claim C20

\* The selector of highest precedence that is present: the argument, else
\* BWH_INSTANCE, else the configured default; "" when none is.
Selected ==
    IF resolved.arg # "" THEN resolved.arg
    ELSE IF resolved.env # "" THEN resolved.env
    ELSE resolved.config.default

\* C20: the instance is chosen by the selector of highest precedence that is
\* present, also when that one names a missing instance; without any selector
\* the sole configured instance is chosen.
C20_StrictPrecedence ==
    resolved.called =>
        /\ Selected # "" =>
              /\ resolved.err.sentinel = "nil" <=> Selected \in DOMAIN resolved.config.instances
              /\ resolved.err.sentinel = "nil" =>
                    resolved.name = Selected /\ resolved.inst = InstanceOf(Selected)
              /\ resolved.err.sentinel # "nil" => resolved.inst.nil
              /\ DOMAIN resolved.config.instances # {} => resolved.name = Selected
        /\ Selected = "" =>
              /\ resolved.err.sentinel = "nil" <=> Cardinality(DOMAIN resolved.config.instances) = 1
              /\ resolved.err.sentinel = "nil" =>
                    /\ DOMAIN resolved.config.instances = {resolved.name}
                    /\ resolved.inst = InstanceOf(resolved.name)

\* BWH_INSTANCE names a missing instance while the default is configured.
C20_Witness ==
    /\ resolved.called
    /\ resolved.arg = "" /\ resolved.env = "ghost"
    /\ resolved.config.default = "prod" /\ "prod" \in DOMAIN resolved.config.instances
    /\ resolved.name = "ghost" /\ resolved.err.sentinel = "ErrInstanceNotFound"

\* ------------------------------------------------------------------ claim C21

\* The failure condition of the last resolution, read off the configuration,
\* the environment and the argument it was made with.
FailureCondition ==
    IF DOMAIN resolved.config.instances = {} THEN "ErrNoInstances"
    ELSE IF Selected # ""
    THEN IF Selected \in DOMAIN resolved.config.instances THEN "nil" ELSE "ErrInstanceNotFound"
    ELSE IF Cardinality(DOMAIN resolved.config.instances) = 1 THEN "nil"
    ELSE "ErrNoDefaultInstance"

\* C21: for each of the three failure conditions of instance resolution
\* resolveInstanceWithFallback takes the case of that condition, and not the
\* case of another one nor the default case.
C21_ConditionsRecognised ==
    fb.called => fb.branch = FailureCondition

\* ============================================================ BWHError.Error

\* The domain errors rendered: an authentication failure, a locked VPS and a
\* negative code; with and without message, operation and progress record; a
\* progress record updated in the future, just now, one and thirty seconds ago.
ErrorCodes == {AuthCode, LockedCode, -1}

ErrorLocks ==
    {NoLock} \cup { LockInfo(p, msg, u) : p \in {0, 50, 100}, msg \in {"", "copying"},
                                          u \in {-1, 0, 1, 30} }

BWHErrors ==
    { BWHError(BaseResponse(c, msg, info, l)) :
        c \in ErrorCodes, msg \in {"", "locked"},
        info \in {"", "Migration in progress"}, l \in ErrorLocks }

CallError ==
    /\ ~shown.called
    /\ shown' = [shown EXCEPT !.called = TRUE, !.text = Error(shown.e)]
    /\ UNCHANGED <<migrateVars, clientVars, decodeVars, tokenVars, cliVars, aggVars,
                   configVars>>

ErrorInit ==
    /\ MigrateInit
    /\ ~wait
    /\ ClientAtRest
    /\ DecodeAtRest
    /\ TokenAtRest
    /\ CliAtRest
    /\ AggAtRest
    /\ ConfigAtRest
    /\ \E e \in BWHErrors : shown = [NoError EXCEPT !.e = e]

ErrorNext == CallError

ErrorSpec == ErrorInit /\ [][ErrorNext]_vars

\* ------------------------------------------------------------------ claim C22

\* The decimal text of the numbers rendered.
DecimalText ==
    [n \in {-1, 0, 1, 30, 50, 100, AuthCode, LockedCode} |->
        CASE n = -1 -> "-1" [] n = 0 -> "0" [] n = 1 -> "1" [] n = 30 -> "30"
          [] n = 50 -> "50" [] n = 100 -> "100" [] n = AuthCode -> "700005"
          [] n = LockedCode -> "788888"]

HeadLine ==
    IF shown.e.message = "" THEN "BWH API error " \o DecimalText[shown.e.code]
    ELSE "BWH API error " \o DecimalText[shown.e.code] \o ": " \o shown.e.message

OperationLine == "\nOperation: " \o shown.e.info

ProgressLine ==
    "\nProgress: " \o DecimalText[shown.e.lock.percent] \o "% complete - "
    \o shown.e.lock.msg

UpdatedSuffix == " (updated " \o DecimalText[shown.e.lock.upd] \o "s ago)"

\* C22: the text is the head line, then the operation line iff the additional
\* error info is non-empty, then the progress line iff a locking-progress
\* record is present, with the updated suffix iff its elapsed seconds exceed 0.
C22_ErrorRendering ==
    shown.called =>
        \E op \in {"", OperationLine}, pr \in {"", ProgressLine}, up \in {"", UpdatedSuffix} :
            /\ shown.text = HeadLine \o op \o pr \o up
            /\ op = OperationLine <=> shown.e.info # ""
            /\ pr = ProgressLine <=> shown.e.lock.present
            /\ up = UpdatedSuffix <=> shown.e.lock.present /\ shown.e.lock.upd > 0

\* A locked error without message whose progress record was updated just now.
C22_Witness ==
    /\ shown.called
    /\ shown.e.message = "" /\ shown.e.lock.present /\ shown.e.lock.upd = 0
    /\ shown.text
         = "BWH API error 788888\nOperation: Migration in progress\nProgress: 50% complete - copying"

\* ------------------------------------------------------------------ claim C23

\* The probe answered by w failed with the locked error and carries a
\* locking-progress record.
LockedWithRecord(w) ==
    LET r == GetMigrateLocations(client, w, FALSE)
    IN  ResourceLocked(r.err) /\ r.err.lock.present

\* The (percent, message) pair of the record w carries.
PairOf(w) == <<w.base.lock.percent, w.base.lock.msg>>

\* The step is the return of a probe.
ProbeAnswered == pc = "probing" /\ pc' # "probing"

\* The step prints a progress line (while the line counter still counts).
ProgressLineEmitted == out'.progLines = out.progLines + 1

\* C23: a locked probe that carries a progress record prints a progress line
\* iff its (percent, message) pair differs from the pair of the progress line
\* printed last; before any line was printed every pair differs.
C23_ProgressOnlyOnChange ==
    [][(ProbeAnswered /\ LockedWithRecord(lastProbe') /\ out.progLines < MaxCount)
          => (ProgressLineEmitted
                <=> (out.progLines = 0 \/ PairOf(lastProbe') # out.progPair))]_vars

\* ------------------------------------------------------------------ claim C24

\* The provider has accepted the start request: the start call has returned
\* without error.
StartAccepted == startResolved /\ startRes.err.kind = "nil"

\* The step reports "VE unlocked" and ends the invocation in success.
UnlockReported ==
    /\ pc = "probing" /\ pc' = "done"
    /\ result' = ReturnNil /\ out'.unlocked = out.unlocked + 1

\* C24: in wait mode, when the first probe answered succeeds (so no locked
\* probe was observed before it), success is reported only if the provider has
\* accepted the start request: not while the start call is still in flight.
C24_NoSuccessWhileRequested ==
    [][(wait /\ nAnswered = 0 /\ UnlockReported) => StartAccepted]_vars

\* ------------------------------------------------------------------ claim C25

\* The start call has resolved with the resource-locked error.
StartLocked == wait /\ startResolved /\ ResourceLocked(startRes.err)

\* The invocation ended in success on an unlocked probe, with no acceptance
\* and no new-IP report.
EndedUnlockedWithoutIPs ==
    /\ result = ReturnNil /\ out.unlocked = 1
    /\ out.accepted = 0 /\ out.ipv4 = <<>> /\ out.ipv6 = <<>>

\* The invocation ended with the timeout failure after the deadline.
EndedByDeadline == deadlineFired /\ result = ReturnErr("migration timed out", NilErr)

\* C25: in wait mode, when the start call resolved with the locked error, the
\* loop that has received it is still polling, and the invocation ends only in
\* success on an unlocked probe, without new-IP report, or by the deadline.
C25_LockedStartKeepsPolling ==
    StartLocked =>
        /\ pc = "done" => (EndedUnlockedWithoutIPs \/ EndedByDeadline)
        /\ (gpc = "exited" /\ errCh = <<>> /\ ~deadlineFired /\ nAnswered = 0)
              => pc # "done"

\* The loop received the locked error of the start call, polled on, and ended
\* on the second probe, which succeeded.
C25_Witness ==
    /\ StartLocked /\ gpc = "exited" /\ errCh = <<>>
    /\ nAnswered = 2 /\ pc = "done" /\ EndedUnlockedWithoutIPs

\* ------------------------------------------------------------------ claim C26

\* The templates getAvailableOS returned to the last run.
Advertised == { cli.in.os.templates[i] : i \in 1..Len(cli.in.os.templates) }

\* The last run sent a reinstallOS request.
ReinstallSent == \E i \in 1..Len(cli.calls) : cli.calls[i] = "reinstallOS"

\* C26: reinstall sends reinstallOS only after getAvailableOS, with the template
\* asked for, which is one of the templates that call returned; for a template
\* outside that list the run returns the validation error and sends none.
C26_ReinstallOnlyAdvertised ==
    cli.cmd = "reinstall" =>
        /\ ReinstallSent =>
              /\ cli.calls = <<"getAvailableOS", "reinstallOS">>
              /\ cli.in.os.ok
              /\ cli.os = cli.in.osTemplate
              /\ cli.os \in Advertised
        /\ ~ReinstallSent => cli.os = Absent
        /\ (cli.in.cfgOk /\ cli.in.os.ok /\ ~cli.in.listOnly /\ cli.in.osTemplate # ""
              /\ cli.in.osTemplate \notin Advertised)
              => (cli.ret = "validation" /\ ~ReinstallSent)

\* A template one provider list advertises and the other does not: sent under
\* the first.
C26_Witness ==
    /\ cli.cmd = "reinstall" /\ ReinstallSent
    /\ cli.os = "centos-7-x86_64"
    /\ "debian-12-x86_64" \notin Advertised

\* ============================================= config.Manager: the mutations

\* Names given to the manager: three that are valid, none, one with a space.
ManagerNames == {"prod", "dev", "web", "", "my vps"}

\* Instances given to AddInstance: two that are valid, and one each without
\* API key, without VeID, with a short key and with a space in the key.
ManagerInstances ==
    { [nil |-> FALSE, apiKey |-> "private_key_001", veid |-> "1001"],
      [nil |-> FALSE, apiKey |-> "private_key_002", veid |-> "1002"],
      [nil |-> FALSE, apiKey |-> "", veid |-> "1001"],
      [nil |-> FALSE, apiKey |-> "private_key_001", veid |-> ""],
      [nil |-> FALSE, apiKey |-> "short", veid |-> "1001"],
      [nil |-> FALSE, apiKey |-> "key with space", veid |-> "1001"] }

\* The register of a call that left r.
ManagerCalled(op, name, r) ==
    [op |-> op, name |-> name, before |-> config, err |-> r.err,
     allOk |-> mgr.allOk /\ r.err = NoConfigErr]

CallAddInstance(name, instance, setDefault, writable) ==
    /\ LET r == AddInstance(config, name, instance, setDefault, writable)
       IN  /\ config' = r.config
           /\ mgr' = ManagerCalled("AddInstance", name, r)
    /\ UNCHANGED <<migrateVars, clientVars, decodeVars, tokenVars, cliVars, aggVars,
                   errorVars, env, resolved, fb>>

CallRemoveInstance(name, writable) ==
    /\ LET r == RemoveInstance(config, name, writable)
       IN  /\ config' = r.config
           /\ mgr' = ManagerCalled("RemoveInstance", name, r)
    /\ UNCHANGED <<migrateVars, clientVars, decodeVars, tokenVars, cliVars, aggVars,
                   errorVars, env, resolved, fb>>

CallSetDefault(name, writable) ==
    /\ LET r == SetDefault(config, name, writable)
       IN  /\ config' = r.config
           /\ mgr' = ManagerCalled("SetDefault", name, r)
    /\ UNCHANGED <<migrateVars, clientVars, decodeVars, tokenVars, cliVars, aggVars,
                   errorVars, env, resolved, fb>>

\* NewManager without a file: the empty configuration.
ManagerInit ==
    /\ MigrateInit
    /\ ~wait
    /\ ClientAtRest
    /\ DecodeAtRest
    /\ TokenAtRest
    /\ CliAtRest
    /\ AggAtRest
    /\ ConfigAtRest
    /\ ErrorAtRest

ManagerNext ==
    \/ \E n \in ManagerNames, i \in ManagerInstances, d \in BOOLEAN, w \in BOOLEAN :
          CallAddInstance(n, i, d, w)
    \/ \E n \in ManagerNames, w \in BOOLEAN : CallRemoveInstance(n, w)
    \/ \E n \in ManagerNames, w \in BOOLEAN : CallSetDefault(n, w)

ManagerSpec == ManagerInit /\ [][ManagerNext]_vars

\* ------------------------------------------------------------------ claim C27

\* C27: from the empty configuration, after any calls of AddInstance,
\* RemoveInstance and SetDefault, failed ones included, DefaultInstance is
\* empty or the name of a configured instance.
C27_DefaultIsConfigured ==
    config.default = "" \/ config.default \in DOMAIN config.instances

\* The default instance was removed while two others stay: the default is
\* cleared.
C27_Witness ==
    /\ mgr.op = "RemoveInstance" /\ mgr.err = NoConfigErr
    /\ mgr.before.default = mgr.name
    /\ Cardinality(DOMAIN config.instances) = 2
    /\ config.default = ""

\* ------------------------------------------------------------------ claim C28

\* C28: from the empty configuration, after calls that all succeeded, whenever
\* exactly one instance is configured it is the default instance.
C28_SoleInstanceIsDefault ==
    (mgr.allOk /\ Cardinality(DOMAIN config.instances) = 1)
        => config.default \in DOMAIN config.instances

\* ------------------------------------------------------------------ claim C29

\* C29: when AddInstance, RemoveInstance or SetDefault returns an error, the
\* configuration in memory is the one before the call.
C29_ErrorLeavesConfig ==
    (mgr.op # "none" /\ mgr.err # NoConfigErr) => config = mgr.before

\* ------------------------------------------------------------------ claim C30

\* C30: a domain error returned by a client operation and wrapped by a command
\* with its context gets the same answers from GetBWHError, IsBWHError,
\* IsLockedError and IsAuthenticationError as the error itself.
C30_WrappedStaysRecognisable ==
    (wrp.called /\ wrp.cause.kind = "bwh") => wrp.wrapped = wrp.original

====
